---------------------------- MODULE Spec2Model ----------------------------
(***************************************************************************)
(* Model of the investment-hub analytics code:                             *)
(*   lib/mockData   (src/unnamed/part_001): positions, allocations,        *)
(*                    calculateMockMetrics, the generators of positions    *)
(*                    and of historical snapshots                          *)
(*   research page  (src/app/research/page.tsx): the comparison selection  *)
(*   transactions page (src/unnamed/part_000): filter, totals by type,     *)
(*                    monthly volume, top traded, tax card                 *)
(*                                                                         *)
(* Conventions.                                                            *)
(*  - Money is an integer number of currency units; sums of such numbers   *)
(*    are exact.  The result of a JavaScript division is kept as a tagged  *)
(*    value: a fraction num/den, or NaN, or +/-Infinity (JsDiv).           *)
(*  - A JavaScript string on which the code does character work (symbol,   *)
(*    id, search text) is a sequence of one-character strings.             *)
(*  - A Date is an integer number of ticks.  TicksPerDay ticks make a day, *)
(*    DaysPerMonth days a month, 12 months a year; local time is UTC.      *)
(*  - Math.sqrt keeps its argument: k * sqrt(x) is the pair of k and x.    *)
(*  - Array.prototype.sort is stable (ECMAScript 2019), Map and the string *)
(*    keys of an object iterate in insertion order.                        *)
(***************************************************************************)
EXTENDS Integers, Sequences, FiniteSets, TLC

VARIABLES
    positions,            \* argument of the allocation functions
    sectorAllocations,    \* result of calculateSectorAllocations
    assetAllocations,     \* result of calculateAssetAllocations
    done,                 \* the functions that have been applied
    loaded,               \* TransactionsPage: portfolioData !== null
    transactions,         \* portfolioData.transactions
    filterType,           \* useState('all')
    filterSymbol,         \* useState('all')
    searchQuery,          \* useState('')
    dateFrom,             \* useState('')
    dateTo,               \* useState('')
    filteredTransactions, \* value computed by the last render
    totals,               \* totalBuys .. totalDividendAmount of the last render
    transactionTypeData,  \* value computed by the last render
    monthlyChartData,     \* value computed by the last render
    topTradedStocks,      \* value computed by the last render
    currentYear,          \* useState(new Date().getFullYear())
    taxSummary,           \* the figures of the tax card of the last render
    snapshots,            \* argument of calculateMockMetrics
    now,                  \* the clock when calculateMockMetrics is called
    metrics,              \* outcome of calculateMockMetrics
    currentSnapshot,      \* currentSnapshot of generateMockPortfolioData
    selectedStocks        \* ResearchPage: useState(['AAPL', 'MSFT'])

allocVars == <<positions, sectorAllocations, assetAllocations, done>>
pageVars == <<loaded, transactions, filterType, filterSymbol, searchQuery,
              dateFrom, dateTo, filteredTransactions, totals,
              transactionTypeData, monthlyChartData, topTradedStocks,
              currentYear, taxSummary>>
metricVars == <<snapshots, now, metrics>>
otherVars == <<currentSnapshot, selectedStocks>>
vars == <<positions, sectorAllocations, assetAllocations, done,
          loaded, transactions, filterType, filterSymbol, searchQuery,
          dateFrom, dateTo, filteredTransactions, totals,
          transactionTypeData, monthlyChartData, topTradedStocks,
          currentYear, taxSummary, snapshots, now, metrics,
          currentSnapshot, selectedStocks>>

(***************************************************************************)
(* Bounds of the model.                                                    *)
(***************************************************************************)
MaxPositions == 3
MaxValue == 2
MaxTxns == 2
MaxDaysAgo == 1
MaxStatTxns == 3
MaxMonths == 13
MaxHoldings == 2
MaxSnapshots == 3

(***************************************************************************)
(* Sequences and JavaScript numbers.                                       *)
(***************************************************************************)
SeqsUpTo(S, n) == UNION {[1..k -> S] : k \in 0..n}

\* InsertIdx(i, acc, keys): index i goes behind every index whose key is not
\* greater, so that equal keys keep their order.
RECURSIVE InsertIdx(_, _, _)
InsertIdx(i, acc, keys) ==
    IF acc = <<>> THEN <<i>>
    ELSE IF keys[Head(acc)] <= keys[i]
         THEN <<Head(acc)>> \o InsertIdx(i, Tail(acc), keys)
         ELSE <<i>> \o acc

RECURSIVE SortedIdx(_, _)
SortedIdx(n, keys) ==
    IF n = 0 THEN <<>> ELSE InsertIdx(n, SortedIdx(n - 1, keys), keys)

\* s.sort((a, b) => key(a) - key(b)), keys[i] being the key of s[i].
ArraySort(s, keys) ==
    LET o == SortedIdx(Len(s), keys)
    IN  [i \in 1..Len(s) |-> s[o[i]]]

NaN == [kind |-> "NaN", num |-> 0, den |-> 1]
Infinity == [kind |-> "Infinity", num |-> 0, den |-> 1]
NegInfinity == [kind |-> "-Infinity", num |-> 0, den |-> 1]
Finite(n, d) == [kind |-> "finite", num |-> n, den |-> d]

\* a / b on two integers.
JsDiv(a, b) ==
    IF b # 0 THEN (IF b > 0 THEN Finite(a, b) ELSE Finite(-a, -b))
    ELSE IF a = 0 THEN NaN
    ELSE IF a > 0 THEN Infinity ELSE NegInfinity

\* x * k, k a positive integer.
JsTimes(x, k) == IF x.kind = "finite" THEN Finite(x.num * k, x.den) ELSE x

\* The arithmetic of JavaScript numbers on these values; a finite result is
\* kept in lowest terms.
RECURSIVE Gcd(_, _)
Gcd(a, b) == IF b = 0 THEN a ELSE Gcd(b, a % b)
Abs(a) == IF a < 0 THEN 0 - a ELSE a
Lowest(n, d) ==
    LET g == Gcd(Abs(n), d) IN Finite(n \div g, d \div g)
Whole(a) == Finite(a, 1)
Sign(x) ==
    IF x.kind = "Infinity" THEN 1
    ELSE IF x.kind = "-Infinity" THEN -1
    ELSE IF x.num > 0 THEN 1 ELSE IF x.num < 0 THEN -1 ELSE 0
Signed(sign) == IF sign > 0 THEN Infinity ELSE NegInfinity

\* -x
JsNeg(x) ==
    IF x.kind = "finite" THEN Finite(0 - x.num, x.den)
    ELSE IF x.kind = "Infinity" THEN NegInfinity
    ELSE IF x.kind = "-Infinity" THEN Infinity
    ELSE NaN

\* x + y
JsAdd(x, y) ==
    IF x.kind = "NaN" \/ y.kind = "NaN" THEN NaN
    ELSE IF x.kind = "finite" /\ y.kind = "finite"
         THEN LET g == Gcd(x.den, y.den)
              IN  Lowest(x.num * (y.den \div g) + y.num * (x.den \div g),
                         (x.den \div g) * y.den)
    ELSE IF x.kind = "finite" THEN y
    ELSE IF y.kind = "finite" \/ y.kind = x.kind THEN x
    ELSE NaN

\* x - y
JsSub(x, y) == JsAdd(x, JsNeg(y))

\* x * y
JsMul(x, y) ==
    IF x.kind = "NaN" \/ y.kind = "NaN" THEN NaN
    ELSE IF x.kind = "finite" /\ y.kind = "finite"
         THEN LET g == Gcd(Abs(x.num), y.den)
                  h == Gcd(Abs(y.num), x.den)
              IN  Lowest((x.num \div g) * (y.num \div h),
                         (x.den \div h) * (y.den \div g))
    ELSE IF Sign(x) = 0 \/ Sign(y) = 0 THEN NaN
    ELSE Signed(Sign(x) * Sign(y))

\* x / y
JsQuot(x, y) ==
    IF x.kind = "NaN" \/ y.kind = "NaN" THEN NaN
    ELSE IF x.kind = "finite" /\ y.kind = "finite"
         THEN IF y.num # 0
              THEN LET g == Gcd(Abs(x.num), Abs(y.num))
                       h == Gcd(y.den, x.den)
                   IN  Lowest((x.num \div g) * (y.den \div h) * Sign(y),
                              (x.den \div h) * (Abs(y.num) \div g))
              ELSE IF x.num = 0 THEN NaN ELSE Signed(Sign(x))
    ELSE IF x.kind = "finite" THEN Whole(0)
    ELSE IF y.kind = "finite" THEN Signed(IF Sign(y) < 0 THEN 0 - Sign(x) ELSE Sign(x))
    ELSE NaN

\* x > y, false when one of them is NaN.
JsGreater(x, y) ==
    /\ x.kind # "NaN" /\ y.kind # "NaN"
    /\ IF x.kind = "finite" /\ y.kind = "finite"
       THEN x.num * y.den > y.num * x.den
       ELSE IF x.kind = y.kind THEN FALSE
       ELSE x.kind = "Infinity" \/ y.kind = "-Infinity"

(***************************************************************************)
(* lib/mockData: the instruments and the allocation functions.             *)
(***************************************************************************)
AAPL == <<"A", "A", "P", "L">>
MSFT == <<"M", "S", "F", "T">>
GOOGL == <<"G", "O", "O", "G", "L">>
AMZN == <<"A", "M", "Z", "N">>
NVDA == <<"N", "V", "D", "A">>
JPM == <<"J", "P", "M">>
V == <<"V">>
JNJ == <<"J", "N", "J">>
PG == <<"P", "G">>
XOM == <<"X", "O", "M">>
SPY == <<"S", "P", "Y">>
QQQ == <<"Q", "Q", "Q">>

mockStocks ==
    << [symbol |-> AAPL, sector |-> "Technology", type |-> "stock"],
       [symbol |-> MSFT, sector |-> "Technology", type |-> "stock"],
       [symbol |-> GOOGL, sector |-> "Technology", type |-> "stock"],
       [symbol |-> AMZN, sector |-> "Consumer Cyclical", type |-> "stock"],
       [symbol |-> NVDA, sector |-> "Technology", type |-> "stock"],
       [symbol |-> JPM, sector |-> "Financial Services", type |-> "stock"],
       [symbol |-> V, sector |-> "Financial Services", type |-> "stock"],
       [symbol |-> JNJ, sector |-> "Healthcare", type |-> "stock"],
       [symbol |-> PG, sector |-> "Consumer Defensive", type |-> "stock"],
       [symbol |-> XOM, sector |-> "Energy", type |-> "stock"],
       [symbol |-> SPY, sector |-> "Diversified", type |-> "etf"],
       [symbol |-> QQQ, sector |-> "Technology", type |-> "etf"] >>

\* A Position of an instrument of mockStocks, with the fields the allocation
\* functions read.
Position(stock, value) ==
    [symbol |-> stock.symbol, sector |-> stock.sector,
     assetType |-> stock.type, marketValue |-> value]

\* positions.reduce((sum, p) => sum + p.marketValue, 0)
RECURSIVE SumMarketValue(_)
SumMarketValue(ps) ==
    IF ps = <<>> THEN 0 ELSE Head(ps).marketValue + SumMarketValue(Tail(ps))

\* Index of the entry of map m under key k, 0 when there is none.
RECURSIVE MapIndex(_, _)
MapIndex(m, k) ==
    IF m = <<>> THEN 0
    ELSE IF m[Len(m)].key = k THEN Len(m)
    ELSE MapIndex(SubSeq(m, 1, Len(m) - 1), k)

\* Map.set: a present key keeps its place, a new key goes last.
MapSet(m, k, v) ==
    LET i == MapIndex(m, k)
    IN  IF i = 0 THEN Append(m, [key |-> k, val |-> v])
        ELSE [m EXCEPT ![i] = [key |-> k, val |-> v]]

\* Map.get(k) || dflt
MapGetOr(m, k, dflt) ==
    LET i == MapIndex(m, k) IN IF i = 0 THEN dflt ELSE m[i].val

SectorStepOverwrite(sectorMap, position) ==
    MapSet(sectorMap, position.sector,
           [value |-> position.marketValue, count |-> 1])

\* The body of positions.forEach in calculateSectorAllocations.
SectorStep(sectorMap, position) ==
    LET existing == MapGetOr(sectorMap, position.sector,
                             [value |-> 0, count |-> 0])
    IN  MapSet(sectorMap, position.sector,
               [value |-> existing.value + position.marketValue,
                count |-> existing.count + 1])

RECURSIVE SectorMap(_)
SectorMap(ps) ==
    IF ps = <<>> THEN <<>>
    ELSE SectorStep(SectorMap(SubSeq(ps, 1, Len(ps) - 1)), ps[Len(ps)])

\* The body of positions.forEach in calculateAssetAllocations.
AssetStep(assetMap, position) ==
    LET existing == MapGetOr(assetMap, position.assetType, 0)
    IN  MapSet(assetMap, position.assetType, existing + position.marketValue)

RECURSIVE AssetMap(_)
AssetMap(ps) ==
    IF ps = <<>> THEN <<>>
    ELSE AssetStep(AssetMap(SubSeq(ps, 1, Len(ps) - 1)), ps[Len(ps)])

PercentageUnscaled(value, totalValue) == JsDiv(value, totalValue)

\* (value / totalValue) * 100
Percentage(value, totalValue) == JsTimes(JsDiv(value, totalValue), 100)

SortByValueTiesReversed(allocs) ==
    LET n == Len(allocs)
        rev == [i \in 1..n |-> allocs[n + 1 - i]]
    IN  ArraySort(rev, [i \in 1..n |-> 0 - rev[i].value])

\* .sort((a, b) => b.value - a.value)
SortByValueDesc(allocs) ==
    ArraySort(allocs, [i \in 1..Len(allocs) |-> 0 - allocs[i].value])

calculateSectorAllocations(ps) ==
    LET sectorMap == SectorMap(ps)
        totalValue == SumMarketValue(ps)
        mapped == [i \in 1..Len(sectorMap) |->
                     [sector |-> sectorMap[i].key,
                      value |-> sectorMap[i].val.value,
                      percentage |-> Percentage(sectorMap[i].val.value, totalValue),
                      count |-> sectorMap[i].val.count]]
    IN  SortByValueDesc(mapped)

calculateAssetAllocations(ps) ==
    LET assetMap == AssetMap(ps)
        totalValue == SumMarketValue(ps)
        mapped == [i \in 1..Len(assetMap) |->
                     [assetType |-> assetMap[i].key,
                      value |-> assetMap[i].val,
                      percentage |-> Percentage(assetMap[i].val, totalValue)]]
    IN  SortByValueDesc(mapped)

(***************************************************************************)
(* Dates and strings.                                                      *)
(***************************************************************************)
TicksPerDay == 2
DaysPerMonth == 2

ShortMonths == <<"Jan", "Feb", "Mar", "Apr", "May", "Jun",
                 "Jul", "Aug", "Sep", "Oct", "Nov", "Dec">>

\* The Date at tick `tick` of day `day` (1-based) of month `month` (0 = Jan
\* 2025, 12 = Jan 2026, ...).
DateAt(month, day, tick) ==
    (month * DaysPerMonth + (day - 1)) * TicksPerDay + tick

DayIndex(date) == date \div TicksPerDay
MonthIndex(date) == DayIndex(date) \div DaysPerMonth

\* date.getFullYear()
GetFullYear(date) == 2025 + MonthIndex(date) \div 12

\* date.toLocaleDateString('en-US', { year: 'numeric', month: 'short' }),
\* "Dec 2025" as the pair of its two words.
MonthLabel(date) ==
    [mon |-> ShortMonths[(MonthIndex(date) % 12) + 1], year |-> GetFullYear(date)]

\* new Date("Dec 2025").getTime(): the first instant of that month.
ParseMonthLabel(label) ==
    LET m == CHOOSE i \in 1..12 : ShortMonths[i] = label.mon
    IN  DateAt((label.year - 2025) * 12 + (m - 1), 1, 0)

\* The value of an <input type="date"> for the day of `date`: 'YYYY-MM-DD' as
\* the triple of its numbers; the empty string is the empty sequence.
DateInputValue(date) ==
    << GetFullYear(date), (MonthIndex(date) % 12) + 1,
       (DayIndex(date) % DaysPerMonth) + 1 >>

\* new Date('YYYY-MM-DD'): midnight (UTC) at the start of that day.
ParseDateInput(str) ==
    DateAt((str[1] - 2025) * 12 + (str[2] - 1), str[3], 0)

UpperLetters == <<"A", "B", "C", "D", "E", "F", "G", "H", "I", "J", "K", "L", "M",
                  "N", "O", "P", "Q", "R", "S", "T", "U", "V", "W", "X", "Y", "Z">>
LowerLetters == <<"a", "b", "c", "d", "e", "f", "g", "h", "i", "j", "k", "l", "m",
                  "n", "o", "p", "q", "r", "s", "t", "u", "v", "w", "x", "y", "z">>
Digits == <<"0", "1", "2", "3", "4", "5", "6", "7", "8", "9">>

ToLowerChar(c) ==
    IF \E i \in 1..26 : UpperLetters[i] = c
    THEN LowerLetters[CHOOSE i \in 1..26 : UpperLetters[i] = c]
    ELSE c

\* String.prototype.toLowerCase
ToLowerCase(str) == [i \in 1..Len(str) |-> ToLowerChar(str[i])]

\* String.prototype.includes
Includes(str, part) ==
    \E i \in 0..(Len(str) - Len(part)) : SubSeq(str, i + 1, i + Len(part)) = part

\* `txn-${i}`
TxnId(i) ==
    <<"t", "x", "n", "-">> \o
    (IF i < 10 THEN <<Digits[i + 1]>>
     ELSE <<Digits[(i \div 10) + 1], Digits[(i % 10) + 1]>>)

\* The string 'all'.
All == <<"a", "l", "l">>

(***************************************************************************)
(* The transactions page: one render of TransactionsPage.                  *)
(***************************************************************************)
MatchesSearchCaseSensitiveQuery(transaction, query) ==
    \/ query = <<>>
    \/ Includes(ToLowerCase(transaction.symbol), query)
    \/ Includes(ToLowerCase(transaction.id), query)

MatchesSearch(transaction, query) ==
    \/ query = <<>>
    \/ Includes(ToLowerCase(transaction.symbol), ToLowerCase(query))
    \/ Includes(ToLowerCase(transaction.id), ToLowerCase(query))

\* Without the guards of the date bounds: new Date('') is an invalid date
\* and every comparison with it is false.
MatchesUnguardedDates(transaction, fType, fSymbol, query, from, to) ==
    LET matchesType == fType = "all" \/ transaction.type = fType
        matchesSymbol == fSymbol = All \/ transaction.symbol = fSymbol
        matchesSearch == MatchesSearch(transaction, query)
        transactionDate == transaction.date
        matchesDateFrom == from # <<>> /\ transactionDate >= ParseDateInput(from)
        matchesDateTo == to # <<>> /\ transactionDate <= ParseDateInput(to)
    IN  matchesType /\ matchesSymbol /\ matchesSearch /\ matchesDateFrom /\ matchesDateTo

MatchesAny(transaction, fType, fSymbol, query, from, to) ==
    LET matchesType == fType = "all" \/ transaction.type = fType
        matchesSymbol == fSymbol = All \/ transaction.symbol = fSymbol
        matchesSearch == MatchesSearch(transaction, query)
        transactionDate == transaction.date
        matchesDateFrom == from = <<>> \/ transactionDate >= ParseDateInput(from)
        matchesDateTo == to = <<>> \/ transactionDate <= ParseDateInput(to)
    IN  (matchesType \/ matchesSymbol) /\ matchesSearch /\ matchesDateFrom /\ matchesDateTo

\* The callback of transactions.filter.
Matches(transaction, fType, fSymbol, query, from, to) ==
    LET matchesType == fType = "all" \/ transaction.type = fType
        matchesSymbol == fSymbol = All \/ transaction.symbol = fSymbol
        matchesSearch == MatchesSearch(transaction, query)
        transactionDate == transaction.date
        matchesDateFrom == from = <<>> \/ transactionDate >= ParseDateInput(from)
        matchesDateTo == to = <<>> \/ transactionDate <= ParseDateInput(to)
    IN  matchesType /\ matchesSymbol /\ matchesSearch /\ matchesDateFrom /\ matchesDateTo

Filter(txns, fType, fSymbol, query, from, to) ==
    SelectSeq(txns, LAMBDA t : Matches(t, fType, fSymbol, query, from, to))

\* txns.filter(t => t.type === type)
OfType(txns, type) == SelectSeq(txns, LAMBDA t : t.type = type)

\* txns.reduce((sum, t) => sum + t.total, 0)
RECURSIVE SumTotal(_)
SumTotal(txns) == IF txns = <<>> THEN 0 ELSE Head(txns).total + SumTotal(Tail(txns))

TotalsCountingAll(txns) ==
    [totalBuys |-> Len(txns),
     totalSells |-> Len(OfType(txns, "sell")),
     totalDividends |-> Len(OfType(txns, "dividend")),
     totalBuyAmount |-> SumTotal(txns),
     totalSellAmount |-> SumTotal(OfType(txns, "sell")),
     totalDividendAmount |-> SumTotal(OfType(txns, "dividend"))]

Totals(txns) ==
    [totalBuys |-> Len(OfType(txns, "buy")),
     totalSells |-> Len(OfType(txns, "sell")),
     totalDividends |-> Len(OfType(txns, "dividend")),
     totalBuyAmount |-> SumTotal(OfType(txns, "buy")),
     totalSellAmount |-> SumTotal(OfType(txns, "sell")),
     totalDividendAmount |-> SumTotal(OfType(txns, "dividend"))]

\* transactionTypeData without the .filter(item => item.value > 0).
TransactionTypeDataOfEveryType(txns) ==
    LET t == Totals(txns)
    IN  << [name |-> "Buys", value |-> t.totalBuys, amount |-> t.totalBuyAmount],
           [name |-> "Sells", value |-> t.totalSells, amount |-> t.totalSellAmount],
           [name |-> "Dividends", value |-> t.totalDividends,
            amount |-> t.totalDividendAmount] >>

TransactionTypeData(txns) ==
    LET t == Totals(txns)
    IN  SelectSeq(<< [name |-> "Buys", value |-> t.totalBuys, amount |-> t.totalBuyAmount],
                     [name |-> "Sells", value |-> t.totalSells, amount |-> t.totalSellAmount],
                     [name |-> "Dividends", value |-> t.totalDividends,
                      amount |-> t.totalDividendAmount] >>,
                  LAMBDA item : item.value > 0)

\* The callback of the reduce that builds monthlyData; the object is the
\* sequence of its values in key insertion order.
MonthlyStep(acc, transaction) ==
    LET month == MonthLabel(transaction.date)
        i == IF \E k \in 1..Len(acc) : acc[k].month = month
             THEN CHOOSE k \in 1..Len(acc) : acc[k].month = month
             ELSE Len(acc) + 1
        a == IF i > Len(acc)
             THEN Append(acc, [month |-> month, buys |-> 0, sells |-> 0, dividends |-> 0])
             ELSE acc
        total == transaction.total
    IN  [a EXCEPT ![i] =
           [month |-> month,
            buys |-> @.buys + (IF transaction.type = "buy" THEN total ELSE 0),
            sells |-> @.sells + (IF transaction.type = "sell" THEN total ELSE 0),
            dividends |-> @.dividends + (IF transaction.type = "dividend" THEN total ELSE 0)]]

RECURSIVE MonthlyData(_)
MonthlyData(txns) ==
    IF txns = <<>> THEN <<>>
    ELSE MonthlyStep(MonthlyData(SubSeq(txns, 1, Len(txns) - 1)), txns[Len(txns)])

MonthWindow == 12

\* arr.slice(-n)
SliceLast(arr, n) == SubSeq(arr, IF Len(arr) > n THEN Len(arr) - n + 1 ELSE 1, Len(arr))

\* arr.slice(0, n)
SliceFirst(arr, n) == SubSeq(arr, 1, IF Len(arr) > n THEN n ELSE Len(arr))

MonthlyChartDataOldest(txns) ==
    LET values == MonthlyData(txns)
        sorted == ArraySort(values,
                    [i \in 1..Len(values) |-> ParseMonthLabel(values[i].month)])
    IN  SliceFirst(sorted, MonthWindow)

MonthlyChartData(txns) ==
    LET values == MonthlyData(txns)
        sorted == ArraySort(values,
                    [i \in 1..Len(values) |-> ParseMonthLabel(values[i].month)])
    IN  SliceLast(sorted, MonthWindow)

\* The callback that would subtract the total of a sell from the volume.
SymbolVolumeStepNettingSells(acc, t) ==
    LET i == IF \E k \in 1..Len(acc) : acc[k].symbol = t.symbol
             THEN CHOOSE k \in 1..Len(acc) : acc[k].symbol = t.symbol
             ELSE Len(acc) + 1
        a == IF i > Len(acc) THEN Append(acc, [symbol |-> t.symbol, total |-> 0]) ELSE acc
    IN  [a EXCEPT ![i].total = IF t.type = "sell" THEN @ - t.total ELSE @ + t.total]

\* The callback of the reduce that builds symbolVolume; the object is the
\* sequence of its entries in key insertion order.
SymbolVolumeStep(acc, t) ==
    LET i == IF \E k \in 1..Len(acc) : acc[k].symbol = t.symbol
             THEN CHOOSE k \in 1..Len(acc) : acc[k].symbol = t.symbol
             ELSE Len(acc) + 1
        a == IF i > Len(acc) THEN Append(acc, [symbol |-> t.symbol, total |-> 0]) ELSE acc
    IN  [a EXCEPT ![i].total = @ + t.total]

RECURSIVE SymbolVolume(_)
SymbolVolume(txns) ==
    IF txns = <<>> THEN <<>>
    ELSE SymbolVolumeStep(SymbolVolume(SubSeq(txns, 1, Len(txns) - 1)), txns[Len(txns)])

TopN == 5

TopTradedStocksUnsliced(txns) ==
    LET entries == SymbolVolume(txns)
    IN  ArraySort(entries, [i \in 1..Len(entries) |-> 0 - entries[i].total])

\* The ranking a sort that is not stable could give: entries of the same
\* total in the reverse of their insertion order.
TopTradedStocksTiesReversed(txns) ==
    LET entries == SymbolVolume(txns)
        n == Len(entries)
        reversed == [i \in 1..n |-> entries[n + 1 - i]]
        sorted == ArraySort(reversed, [i \in 1..n |-> 0 - reversed[i].total])
    IN  SliceFirst(sorted, TopN)

TopTradedStocks(txns) ==
    LET entries == SymbolVolume(txns)
        sorted == ArraySort(entries, [i \in 1..Len(entries) |-> 0 - entries[i].total])
    IN  SliceFirst(sorted, TopN)

\* The transactions of the given calendar year.
YearTransactions(txns, year) == SelectSeq(txns, LAMBDA t : GetFullYear(t.date) = year)

\* yearSells.reduce((sum, t) => sum + t.total * 0.2, 0)
RECURSIVE RealizedGains(_)
RealizedGains(sells) ==
    IF sells = <<>> THEN Whole(0)
    ELSE JsAdd(RealizedGains(SubSeq(sells, 1, Len(sells) - 1)),
               JsMul(Whole(sells[Len(sells)].total), Finite(2, 10)))

\* The summary that counted the sells of every year.
TaxSummaryOfEveryYear(txns, year) ==
    LET yearSells == OfType(txns, "sell")
    IN  [sells |-> Len(yearSells),
         sellProceeds |-> SumTotal(yearSells),
         realizedGains |-> RealizedGains(yearSells),
         dividendIncome |-> SumTotal(OfType(txns, "dividend"))]

\* yearTransactions, yearSells, totalRealizedGains and the four figures of
\* the Tax Reporting card.
TaxSummary(txns, year) ==
    LET yearTransactions == YearTransactions(txns, year)
        yearSells == OfType(yearTransactions, "sell")
    IN  [sells |-> Len(yearSells),
         sellProceeds |-> SumTotal(yearSells),
         realizedGains |-> RealizedGains(yearSells),
         dividendIncome |-> SumTotal(OfType(yearTransactions, "dividend"))]

(***************************************************************************)
(* Ledgers.                                                                *)
(***************************************************************************)
Transaction(i, date, symbol, type, total) ==
    [id |-> TxnId(i), date |-> date, symbol |-> symbol, type |-> type, total |-> total]

\* The ledger with the fields of fields[k] and the id of position k - 1.
WithIds(fields) ==
    [k \in 1..Len(fields) |->
       Transaction(k - 1, fields[k].date, fields[k].symbol, fields[k].type,
                   fields[k].total)]

\* generateMockTransactions, draws[k] being the random draws of iteration
\* k - 1 of its loop and nowTick the time of day of the call: a transaction
\* is dated daysAgo days before today at the time of day of the call.
generateMockTransactions(draws, nowTick) ==
    LET pushed == [k \in 1..Len(draws) |->
                     Transaction(k - 1,
                                 DateAt(0, 1 + MaxDaysAgo - draws[k].daysAgo, nowTick),
                                 draws[k].stock.symbol,
                                 IF draws[k].isBuy THEN "buy" ELSE "sell",
                                 draws[k].total)]
    IN  ArraySort(pushed, [k \in 1..Len(pushed) |-> 0 - pushed[k].date])

\* The random draws of one iteration of the generator's loop.
Draws ==
    [daysAgo : 0..MaxDaysAgo, stock : {mockStocks[6], mockStocks[7]},
     isBuy : BOOLEAN, total : {1}]

\* The fields of a transaction: any transaction of JPM in December 2025 or
\* January 2026, or a buy or sell of V in January 2026.
StatFields ==
    {f \in [date : {DateAt(11, 1, 0), DateAt(12, 1, 0)}, symbol : {JPM, V},
            type : {"buy", "sell", "dividend"}, total : {1, 2}] :
       f.symbol = JPM \/ (f.date = DateAt(12, 1, 0) /\ f.type # "dividend")}

\* Three orders of the numbers 0..n-1: ascending, descending, scattered.
Orders(n) ==
    { [k \in 1..n |-> k - 1],
      [k \in 1..n |-> n - k],
      [k \in 1..n |-> (k * 5) % n] }

\* The ledger of one buy in each month of the set M, in the given order.
MonthLedger(M, order) ==
    LET ms == SelectSeq(order, LAMBDA m : m \in M)
    IN  WithIds([k \in 1..Len(ms) |->
                   [date |-> DateAt(ms[k], 1, 0), symbol |-> JPM,
                    type |-> "buy", total |-> 1]])

\* The ledger of one transaction of each of the generator's eight symbols
\* whose total tot[i] is not 0, in the given order.
WideLedger(tot, order) ==
    LET ss == SelectSeq(order, LAMBDA i : tot[i + 1] > 0)
    IN  WithIds([k \in 1..Len(ss) |->
                   [date |-> DateAt(12, 1, 0), symbol |-> mockStocks[ss[k] + 1].symbol,
                    type |-> IF tot[ss[k] + 1] = 1 THEN "buy" ELSE "sell",
                    total |-> tot[ss[k] + 1]]])

\* The texts typed into the search box.
Queries == {<<>>, <<"j">>, <<"P", "m">>, <<"N", "-", "1">>, <<"0">>, <<"q">>}

\* The values of the date inputs.
DateInputs == {<<>>} \cup {DateInputValue(DateAt(0, 1 + d, 0)) : d \in 0..MaxDaysAgo}

(***************************************************************************)
(* The allocation functions applied to a list of positions.                *)
(***************************************************************************)
\* Positions in AAPL, JPM, SPY and QQQ of a market value up to MaxValue.
SomePositions ==
    {Position(mockStocks[i], v) : i \in {1, 6, 11, 12}, v \in 0..MaxValue}

\* calculateMockMetrics is not called.
Pending == [outcome |-> "pending"]
\* currentSnapshot before generateMockPortfolioData has made it.
NoSnapshot == [made |-> FALSE]

MetricsIdle ==
    /\ snapshots = <<>>
    /\ now = DateAt(0, 1 + MaxDaysAgo, 0)
    /\ metrics = Pending
    /\ currentSnapshot = NoSnapshot
    /\ selectedStocks = <<AAPL, MSFT>>

PageIdle ==
    /\ loaded = FALSE
    /\ transactions = <<>>
    /\ filterType = "all"
    /\ filterSymbol = All
    /\ searchQuery = <<>>
    /\ dateFrom = <<>>
    /\ dateTo = <<>>
    /\ filteredTransactions = <<>>
    /\ totals = Totals(<<>>)
    /\ transactionTypeData = <<>>
    /\ monthlyChartData = <<>>
    /\ topTradedStocks = <<>>
    /\ taxSummary = TaxSummary(<<>>, currentYear)

AllocIdle ==
    /\ positions = <<>>
    /\ sectorAllocations = <<>>
    /\ assetAllocations = <<>>
    /\ done = {}
    /\ MetricsIdle

InitAlloc ==
    /\ positions \in SeqsUpTo(SomePositions, MaxPositions)
    /\ sectorAllocations = <<>>
    /\ assetAllocations = <<>>
    /\ done = {}
    /\ MetricsIdle
    /\ currentYear = GetFullYear(DateAt(0, 1 + MaxDaysAgo, 0))
    /\ PageIdle

CalcSectorAllocations ==
    /\ "sector" \notin done
    /\ sectorAllocations' = calculateSectorAllocations(positions)
    /\ done' = done \cup {"sector"}
    /\ UNCHANGED <<positions, assetAllocations>>
    /\ UNCHANGED <<pageVars, metricVars, otherVars>>

CalcAssetAllocations ==
    /\ "asset" \notin done
    /\ assetAllocations' = calculateAssetAllocations(positions)
    /\ done' = done \cup {"asset"}
    /\ UNCHANGED <<positions, sectorAllocations>>
    /\ UNCHANGED <<pageVars, metricVars, otherVars>>

NextAlloc == CalcSectorAllocations \/ CalcAssetAllocations

SpecAlloc == InitAlloc /\ [][NextAlloc]_vars

(***************************************************************************)
(* The transactions page.                                                  *)
(***************************************************************************)
\* The page is mounted on the day the generator dates its transactions from.
Init ==
    /\ AllocIdle
    /\ currentYear = GetFullYear(DateAt(0, 1 + MaxDaysAgo, 0))
    /\ PageIdle

\* The body of TransactionsPage from the ledger and the filter state on.
Render(txns, fType, fSymbol, query, from, to) ==
    /\ filteredTransactions' = Filter(txns, fType, fSymbol, query, from, to)
    /\ totals' = Totals(txns)
    /\ transactionTypeData' = TransactionTypeData(txns)
    /\ monthlyChartData' = MonthlyChartData(txns)
    /\ topTradedStocks' = TopTradedStocks(txns)
    /\ taxSummary' = TaxSummary(txns, currentYear)

\* The same body when only the filter state has changed: the values that
\* are computed from the ledger alone come out as in the render before.
Rerender(fType, fSymbol, query, from, to) ==
    /\ filteredTransactions' = Filter(transactions, fType, fSymbol, query, from, to)
    /\ UNCHANGED <<totals, transactionTypeData, monthlyChartData, topTradedStocks,
                   currentYear, taxSummary>>

\* useEffect: setPortfolioData(generateMockPortfolioData()), and the render
\* that follows.
Load(ledger) ==
    /\ \E l \in {ledger} :
         /\ transactions' = l
         /\ Render(l, filterType, filterSymbol, searchQuery, dateFrom, dateTo)
    /\ loaded' = TRUE
    /\ UNCHANGED <<filterType, filterSymbol, searchQuery, dateFrom, dateTo, currentYear>>
    /\ UNCHANGED <<allocVars, metricVars, otherVars>>

\* The ledger is one the generator makes from at most MaxTxns draws.
LoadGenerated ==
    /\ ~loaded
    /\ \E d \in SeqsUpTo(Draws, MaxTxns) \ {<<>>}, tick \in 0..(TicksPerDay - 1) :
         Load(generateMockTransactions(d, tick))

\* The ledger has at most MaxStatTxns transactions of any type, in any order.
LoadStat ==
    /\ ~loaded
    /\ \E f \in SeqsUpTo(StatFields, MaxStatTxns) : Load(WithIds(f))

\* The ledger spreads over up to MaxMonths months.
LoadMonths ==
    /\ ~loaded
    /\ \E M \in SUBSET (0..(MaxMonths - 1)), order \in Orders(MaxMonths) :
         M # {} /\ Load(MonthLedger(M, order))

\* The ledger trades up to eight symbols.
LoadWide ==
    /\ ~loaded
    /\ \E tot \in [1..8 -> 0..2], order \in Orders(8) : Load(WideLedger(tot, order))

SetSearchQuery ==
    /\ loaded
    /\ \E q \in Queries :
         /\ searchQuery' = q
         /\ Rerender(filterType, filterSymbol, q, dateFrom, dateTo)
    /\ UNCHANGED <<loaded, transactions, filterType, filterSymbol, dateFrom, dateTo>>
    /\ UNCHANGED <<allocVars, metricVars, otherVars>>

SetFilterType ==
    /\ loaded
    /\ \E ty \in {"all", "buy", "sell", "dividend"} :
         /\ filterType' = ty
         /\ Rerender(ty, filterSymbol, searchQuery, dateFrom, dateTo)
    /\ UNCHANGED <<loaded, transactions, filterSymbol, searchQuery, dateFrom, dateTo>>
    /\ UNCHANGED <<allocVars, metricVars, otherVars>>

\* The options of the select are 'all' and uniqueSymbols.
SetFilterSymbol ==
    /\ loaded
    /\ \E sym \in {All} \cup {transactions[i].symbol : i \in DOMAIN transactions} :
         /\ filterSymbol' = sym
         /\ Rerender(filterType, sym, searchQuery, dateFrom, dateTo)
    /\ UNCHANGED <<loaded, transactions, filterType, searchQuery, dateFrom, dateTo>>
    /\ UNCHANGED <<allocVars, metricVars, otherVars>>

SetDateFrom ==
    /\ loaded
    /\ \E d \in DateInputs :
         /\ dateFrom' = d
         /\ Rerender(filterType, filterSymbol, searchQuery, d, dateTo)
    /\ UNCHANGED <<loaded, transactions, filterType, filterSymbol, searchQuery, dateTo>>
    /\ UNCHANGED <<allocVars, metricVars, otherVars>>

SetDateTo ==
    /\ loaded
    /\ \E d \in DateInputs :
         /\ dateTo' = d
         /\ Rerender(filterType, filterSymbol, searchQuery, dateFrom, d)
    /\ UNCHANGED <<loaded, transactions, filterType, filterSymbol, searchQuery, dateFrom>>
    /\ UNCHANGED <<allocVars, metricVars, otherVars>>

\* The Clear Filters button.
ClearFilters ==
    /\ loaded
    /\ searchQuery' = <<>>
    /\ filterType' = "all"
    /\ filterSymbol' = All
    /\ dateFrom' = <<>>
    /\ dateTo' = <<>>
    /\ Rerender("all", All, <<>>, <<>>, <<>>)
    /\ UNCHANGED <<loaded, transactions>>
    /\ UNCHANGED <<allocVars, metricVars, otherVars>>

Next ==
    \/ LoadGenerated
    \/ SetSearchQuery
    \/ SetFilterType
    \/ SetFilterSymbol
    \/ SetDateFrom
    \/ SetDateTo
    \/ ClearFilters

Spec == Init /\ [][Next]_vars

\* The page rendering a ledger of any content and order.
NextLedger == LoadStat \/ LoadMonths \/ LoadWide

SpecLedger == Init /\ [][NextLedger]_vars

\* The page mounted in December 2025 or in January 2026, rendering a ledger
\* of transactions of both years.
InitTax ==
    /\ AllocIdle
    /\ currentYear \in {GetFullYear(DateAt(11, 1, 0)), GetFullYear(DateAt(12, 1, 0))}
    /\ PageIdle

NextTax == LoadStat

SpecTax == InitTax /\ [][NextTax]_vars

(***************************************************************************)
(* lib/mockData: calculateMockMetrics.                                     *)
(***************************************************************************)
\* k * Math.sqrt(x), kept as the pair of k and x: scale * sqrt(radicand).
NaNRoot == [kind |-> "NaN", scale |-> Whole(0), radicand |-> Whole(0)]
InfinityRoot(kind) == [kind |-> kind, scale |-> Whole(0), radicand |-> Whole(0)]
JsSqrtTimes(x, k) ==
    IF x.kind = "NaN" \/ x.kind = "-Infinity" THEN NaNRoot
    ELSE IF x.kind = "Infinity" THEN InfinityRoot("Infinity")
    ELSE IF x.num < 0 THEN NaNRoot
    ELSE [kind |-> "finite", scale |-> Whole(k), radicand |-> x]

\* x / (r / k), r a value of JsSqrtTimes.
JsQuotByRoot(x, r, k) ==
    IF x.kind = "NaN" \/ r.kind = "NaN" THEN NaNRoot
    ELSE IF r.kind = "Infinity"
         THEN IF x.kind = "finite"
              THEN [kind |-> "finite", scale |-> Whole(0), radicand |-> Whole(0)]
              ELSE NaNRoot
    ELSE IF r.radicand.num = 0 \/ r.scale.num = 0
         THEN IF Sign(x) = 0 THEN NaNRoot
              ELSE InfinityRoot(IF Sign(x) > 0 THEN "Infinity" ELSE "-Infinity")
    ELSE IF x.kind # "finite" THEN InfinityRoot(x.kind)
    ELSE [kind |-> "finite",
          scale |-> JsQuot(JsMul(x, Whole(k)), JsMul(r.scale, r.radicand)),
          radicand |-> r.radicand]

\* A PortfolioSnapshot, with the fields calculateMockMetrics reads.
Snapshot(date, totalValue) == [date |-> date, totalValue |-> totalValue]

\* positions.reduce((sum, p) => sum + p.costBasis * p.quantity, 0)
RECURSIVE SumCost(_)
SumCost(ps) ==
    IF ps = <<>> THEN 0
    ELSE Head(ps).costBasis * Head(ps).quantity + SumCost(Tail(ps))

\* snaps[i]?.totalValue || fallback, i an index that counts from 0.
TotalValueAtOr(snaps, i, fallback) ==
    IF i >= 0 /\ i < Len(snaps) /\ snaps[i + 1].totalValue # 0
    THEN snaps[i + 1].totalValue
    ELSE fallback

\* new Date(new Date().getFullYear(), 0, 1)
YearStart(clock) == DateAt((GetFullYear(clock) - GetFullYear(0)) * 12, 1, 0)

\* The place of snaps.find(s => s.date >= yearStart), 0 when there is none.
FindOnOrAfter(snaps, yearStart) ==
    IF \E i \in DOMAIN snaps : snaps[i].date >= yearStart
    THEN CHOOSE i \in DOMAIN snaps :
           /\ snaps[i].date >= yearStart
           /\ \A j \in 1..(i - 1) : snaps[j].date < yearStart
    ELSE 0

\* snapshots.slice(1).map(...): the return of each snapshot on the one before.
DailyReturns(snaps) ==
    [idx \in 1..(Len(snaps) - 1) |->
       JsDiv(snaps[idx + 1].totalValue - snaps[idx].totalValue, snaps[idx].totalValue)]

\* xs.reduce((sum, r) => sum + r, 0)
RECURSIVE SumNumbers(_)
SumNumbers(xs) ==
    IF xs = <<>> THEN Whole(0)
    ELSE JsAdd(SumNumbers(SubSeq(xs, 1, Len(xs) - 1)), xs[Len(xs)])

\* Math.pow(x, 2)
JsSquare(x) == JsMul(x, x)

\* The reference of the daily return that would be the latest snapshot.
YesterdayValueOfLatest(snaps, currentValue) ==
    TotalValueAtOr(snaps, Len(snaps) - 1, currentValue)

\* snapshots[snapshots.length - 2]?.totalValue || currentValue
YesterdayValue(snaps, currentValue) ==
    TotalValueAtOr(snaps, Len(snaps) - 2, currentValue)

MonthBack == 30

\* snapshots[snapshots.length - 30]?.totalValue || currentValue
MonthAgoValue(snaps, currentValue) ==
    TotalValueAtOr(snaps, Len(snaps) - MonthBack, currentValue)

\* The place of the last snapshot of the year of the clock, 0 when there is
\* none; the last of all when none is of that year.
YtdIndexOfLast(snaps, clock) ==
    IF \E i \in DOMAIN snaps : snaps[i].date >= YearStart(clock)
    THEN CHOOSE i \in DOMAIN snaps :
           /\ snaps[i].date >= YearStart(clock)
           /\ \A j \in (i + 1)..Len(snaps) : snaps[j].date < YearStart(clock)
    ELSE Len(snaps)

\* The place of snapshots.find(s => s.date >= yearStart) || snapshots[0] in
\* snapshots, 0 when the value is undefined.
YtdIndex(snaps, clock) ==
    LET found == FindOnOrAfter(snaps, YearStart(clock))
    IN  IF found # 0 THEN found ELSE IF snaps # <<>> THEN 1 ELSE 0

\* The callback of the forEach of the drawdown scan on the pair of peak and
\* maxDrawdown.
DrawdownStep(acc, snapshot) ==
    LET peak == IF snapshot.totalValue > acc.peak THEN snapshot.totalValue ELSE acc.peak
        drawdown == JsTimes(JsDiv(peak - snapshot.totalValue, peak), 100)
    IN  [peak |-> peak,
         maxDrawdown |-> IF JsGreater(drawdown, acc.maxDrawdown)
                         THEN drawdown ELSE acc.maxDrawdown]

\* The callback that would measure the rise from the lowest value so far.
RiseStep(acc, snapshot) ==
    LET low == IF snapshot.totalValue < acc.peak THEN snapshot.totalValue ELSE acc.peak
        rise == JsTimes(JsDiv(snapshot.totalValue - low, low), 100)
    IN  [peak |-> low,
         maxDrawdown |-> IF JsGreater(rise, acc.maxDrawdown) THEN rise ELSE acc.maxDrawdown]

\* The callback that would measure every fall from the first value.
FallFromFirstStep(acc, snapshot) ==
    LET drawdown == JsTimes(JsDiv(acc.peak - snapshot.totalValue, acc.peak), 100)
    IN  [peak |-> acc.peak,
         maxDrawdown |-> IF JsGreater(drawdown, acc.maxDrawdown)
                         THEN drawdown ELSE acc.maxDrawdown]

RECURSIVE RiseScan(_, _)
RiseScan(snaps, k) ==
    IF k = 0 THEN [peak |-> snaps[1].totalValue, maxDrawdown |-> Whole(0)]
    ELSE RiseStep(RiseScan(snaps, k - 1), snaps[k])

RECURSIVE FallFromFirstScan(_, _)
FallFromFirstScan(snaps, k) ==
    IF k = 0 THEN [peak |-> snaps[1].totalValue, maxDrawdown |-> Whole(0)]
    ELSE FallFromFirstStep(FallFromFirstScan(snaps, k - 1), snaps[k])

\* The pair of peak and maxDrawdown after the first k snapshots.
RECURSIVE DrawdownScan(_, _)
DrawdownScan(snaps, k) ==
    IF k = 0 THEN [peak |-> snaps[1].totalValue, maxDrawdown |-> Whole(0)]
    ELSE DrawdownStep(DrawdownScan(snaps, k - 1), snaps[k])

MaxDrawdownOfRise(snaps) == RiseScan(snaps, Len(snaps)).maxDrawdown

MaxDrawdownFromFirst(snaps) == FallFromFirstScan(snaps, Len(snaps)).maxDrawdown

\* let maxDrawdown = 0; let peak = snapshots[0].totalValue; snapshots.forEach(...)
MaxDrawdown(snaps) == DrawdownScan(snaps, Len(snaps)).maxDrawdown

\* dailyReturns.reduce((sum, r) => sum + r, 0) / dailyReturns.length
AvgReturn(dailyReturns) ==
    JsQuot(SumNumbers(dailyReturns), Whole(Len(dailyReturns)))

\* The sum of the squares of the distances of the returns from avgReturn.
SumSquares(dailyReturns) ==
    SumNumbers([i \in DOMAIN dailyReturns |->
                  JsSquare(JsSub(dailyReturns[i], AvgReturn(dailyReturns)))])

\* The variance that would divide by the number of returns less one.
VarianceOfSample(dailyReturns) ==
    JsQuot(SumSquares(dailyReturns), Whole(Len(dailyReturns) - 1))

\* dailyReturns.reduce((sum, r) => sum + Math.pow(r - avgReturn, 2), 0)
\*   / dailyReturns.length
Variance(dailyReturns) ==
    JsQuot(SumSquares(dailyReturns), Whole(Len(dailyReturns)))

\* calculateMockMetrics(positions, snapshots), called when the clock shows
\* clock. With no snapshot, ytdSnapshot is undefined and ytdSnapshot.totalValue
\* throws a TypeError.
calculateMockMetrics(ps, snaps, clock) ==
    LET currentValue == SumMarketValue(ps)
        totalCost == SumCost(ps)
        totalReturn == currentValue - totalCost
        totalReturnPercent == JsTimes(JsDiv(totalReturn, totalCost), 100)
        yesterdayValue == YesterdayValue(snaps, currentValue)
        dailyReturn == currentValue - yesterdayValue
        monthAgoValue == MonthAgoValue(snaps, currentValue)
        monthlyReturn == currentValue - monthAgoValue
        ytd == YtdIndex(snaps, clock)
        ytdReturn == currentValue - snaps[ytd].totalValue
        dailyReturns == DailyReturns(snaps)
        variance == Variance(dailyReturns)
        volatility == JsSqrtTimes(JsMul(variance, Whole(252)), 100)
        excessReturn == JsSub(JsQuot(totalReturnPercent, Whole(100)), Finite(4, 100))
    IN  IF ytd = 0 THEN [outcome |-> "TypeError"]
        ELSE [outcome |-> "returned",
              value |->
                [totalReturn |-> totalReturn,
                 totalReturnPercent |-> totalReturnPercent,
                 dailyReturn |-> dailyReturn,
                 dailyReturnPercent |-> JsTimes(JsDiv(dailyReturn, yesterdayValue), 100),
                 monthlyReturn |-> monthlyReturn,
                 monthlyReturnPercent |-> JsTimes(JsDiv(monthlyReturn, monthAgoValue), 100),
                 ytdReturn |-> ytdReturn,
                 ytdReturnPercent |-> JsTimes(JsDiv(ytdReturn, snaps[ytd].totalValue), 100),
                 volatility |-> volatility,
                 sharpeRatio |-> JsQuotByRoot(excessReturn, volatility, 100),
                 maxDrawdown |-> MaxDrawdown(snaps),
                 beta |-> Finite(95, 100)]]

(***************************************************************************)
(* calculateMockMetrics applied to positions and a series of snapshots.    *)
(***************************************************************************)
\* A Position with the fields calculateMockMetrics reads as well.
Holding(stock, quantity, costBasis, marketValue) ==
    [symbol |-> stock.symbol, sector |-> stock.sector, assetType |-> stock.type,
     quantity |-> quantity, costBasis |-> costBasis, marketValue |-> marketValue]

\* Positions in AAPL: bought at 0 or at 1, worth as much as they cost or more.
SomeHoldings ==
    {Holding(mockStocks[1], 1, 0, 1), Holding(mockStocks[1], 2, 1, 1),
     Holding(mockStocks[1], 1, 1, 2)}

\* The day of DateAt(0, 1, 0) + d, at midnight.
DateOfDay(d) == d * TicksPerDay

\* The first day of 2026.
NewYearDay == DayIndex(DateAt(12, 1, 0))

\* The series of the given values, one snapshot a day from day start on
\* when ordered, and with the same dates in descending order when not.
Series(values, start, ordered) ==
    [i \in 1..Len(values) |->
       Snapshot(DateOfDay(IF ordered THEN start + i - 1 ELSE start + Len(values) - i),
                values[i])]

\* A series of n daily snapshots of value 1, but for the value 2 of the
\* snapshot at place mark, that ends on the second day of 2026.
LongSeries(n, mark) ==
    Series([i \in 1..n |-> IF i = mark THEN 2 ELSE 1], NewYearDay + 2 - n, TRUE)

\* The series of the values 100, 120, 90, 130 that ends on the second day
\* of 2026.
ExampleSeries == Series(<<100, 120, 90, 130>>, NewYearDay - 2, TRUE)

InitMetrics ==
    /\ positions \in SeqsUpTo(SomeHoldings, MaxHoldings)
    /\ snapshots \in
         {Series(v, NewYearDay - back, o) :
            v \in SeqsUpTo(0..2, MaxSnapshots), back \in 0..MaxSnapshots, o \in BOOLEAN}
         \cup {LongSeries(n, mark) :
                 n \in (MonthBack - 1)..(MonthBack + 1), mark \in 1..3}
         \cup {ExampleSeries}
    /\ now \in {DateAt(11, 2, 1), DateAt(12, 2, 1)}
    /\ metrics = Pending
    /\ currentSnapshot = NoSnapshot
    /\ selectedStocks = <<AAPL, MSFT>>
    /\ sectorAllocations = <<>>
    /\ assetAllocations = <<>>
    /\ done = {}
    /\ currentYear = GetFullYear(now)
    /\ PageIdle

CalcMetrics ==
    /\ metrics = Pending
    /\ metrics' = calculateMockMetrics(positions, snapshots, now)
    /\ UNCHANGED <<positions, snapshots, now>>
    /\ UNCHANGED <<sectorAllocations, assetAllocations, done, pageVars, otherVars>>

NextMetrics == CalcMetrics

SpecMetrics == InitMetrics /\ [][NextMetrics]_vars

(***************************************************************************)
(* The page and the allocation functions on nothing (SpecEmpty): the       *)
(* ledger that is loaded has no transaction and the list of positions is   *)
(* empty.  The symbol select then offers 'all' alone.                      *)
(***************************************************************************)
LoadEmpty ==
    /\ ~loaded
    /\ Load(<<>>)

NextEmpty ==
    \/ LoadEmpty
    \/ SetSearchQuery
    \/ SetFilterType
    \/ SetDateFrom
    \/ SetDateTo
    \/ ClearFilters
    \/ CalcSectorAllocations
    \/ CalcAssetAllocations

SpecEmpty == Init /\ [][NextEmpty]_vars

(***************************************************************************)
(* The research page (SpecResearch): the stocks selected for comparison.   *)
(* Every stock of mockStockData is among the rows shown under some search  *)
(* query, so the checkbox of any of them can be clicked.                   *)
(***************************************************************************)
TSLA == <<"T", "S", "L", "A">>
UNH == <<"U", "N", "H">>
CVX == <<"C", "V", "X">>
KO == <<"K", "O">>
WMT == <<"W", "M", "T">>

\* The symbols of mockStockData, in its order.
mockStockData ==
    <<AAPL, MSFT, GOOGL, AMZN, TSLA, NVDA, JPM, V, JNJ, UNH, XOM, CVX, PG, KO, WMT>>

MaxSelected == 4

\* The selection handleStockSelection would set with no limit on its size.
ToggledWithoutLimit(selected, symbol) ==
    IF \E k \in 1..Len(selected) : selected[k] = symbol
    THEN SelectSeq(selected, LAMBDA s : s # symbol)
    ELSE Append(selected, symbol)

\* The selection after handleStockSelection(symbol); it is the selection
\* before when the handler sets nothing.
Toggled(selected, symbol) ==
    IF \E k \in 1..Len(selected) : selected[k] = symbol
    THEN SelectSeq(selected, LAMBDA s : s # symbol)
    ELSE IF Len(selected) < MaxSelected THEN Append(selected, symbol)
    ELSE selected

handleStockSelection ==
    /\ \E k \in 1..Len(mockStockData) :
         selectedStocks' = Toggled(selectedStocks, mockStockData[k])
    /\ UNCHANGED <<allocVars, pageVars, metricVars, currentSnapshot>>

NextResearch == handleStockSelection

SpecResearch == Init /\ [][NextResearch]_vars

(***************************************************************************)
(* lib/mockData: the generators of positions and of historical snapshots.  *)
(* Math.random() is a stream of numbers of [0, 1): the calls of one run    *)
(* of a generator take its values in order, the stream starting again when *)
(* it is used up.  new Date() is the clock now, which does not advance     *)
(* during one run.                                                         *)
(***************************************************************************)
\* The k-th call of Math.random() of a run, k from 0.
Random(stream, k) == stream[(k % Len(stream)) + 1]

\* Math.floor(x) of a finite x.
Floor(x) == x.num \div x.den

\* generateRandomPrice(base, volatility), r the value Math.random() returns.
generateRandomPrice(base, volatility, r) ==
    JsMul(base, JsAdd(Whole(1), JsMul(JsSub(r, Finite(1, 2)), volatility)))

\* The Position that generateMockPositions makes of the stock at index idx,
\* rq and rp the values Math.random() returns for quantity and price.
MockPosition(stock, idx, rq, rp) ==
    LET basePrice == 100 + idx * 50
        quantity == Floor(JsMul(rq, Whole(50))) + 10
        costBasis == basePrice * quantity
        currentPrice == generateRandomPrice(Whole(basePrice), Finite(15, 100), rp)
        marketValue == JsMul(currentPrice, Whole(quantity))
        gainLoss == JsSub(marketValue, Whole(costBasis))
        gainLossPercent == JsMul(JsQuot(gainLoss, Whole(costBasis)), Whole(100))
    IN  [symbol |-> stock.symbol, sector |-> stock.sector, assetType |-> stock.type,
         quantity |-> quantity,
         costBasis |-> JsQuot(Whole(costBasis), Whole(quantity)),
         currentPrice |-> currentPrice, marketValue |-> marketValue,
         gainLoss |-> gainLoss, gainLossPercent |-> gainLossPercent]

generateMockPositions(stream) ==
    LET stocks == SliceFirst(mockStocks, 10)
    IN  [i \in 1..Len(stocks) |->
           MockPosition(stocks[i], i - 1,
                        Random(stream, 2 * (i - 1)), Random(stream, 2 * (i - 1) + 1))]

daysBack == 365

\* positions.reduce((sum, p) => sum + p.marketValue, 0) on number fields.
TotalOfPositions(ps) == SumNumbers([k \in 1..Len(ps) |-> ps[k].marketValue])

\* date.setTime(date.getTime() - i) in place of line 86.
TicksBefore(date, i) == date - i

\* date.setDate(date.getDate() - i): the same time of day, i days earlier.
DaysBefore(date, i) == date - i * TicksPerDay

\* (daysBack - i) * 0.0003 + (Math.random() - 0.5) * 0.02 in place of line 89.
GrowthOverOldest(i, r) ==
    JsAdd(JsMul(Whole(daysBack - i), Finite(3, 10000)),
          JsMul(JsSub(r, Finite(1, 2)), Finite(2, 100)))

\* growthFactor of the iteration i, r the value Math.random() returns.
GrowthFactor(i, r) ==
    JsAdd(JsAdd(Whole(1), JsMul(Whole(daysBack - i), Finite(3, 10000))),
          JsMul(JsSub(r, Finite(1, 2)), Finite(2, 100)))

\* The copy of position p with the price alone divided by the growth factor.
SnapshotPositionOfPriceOnly(p, growthFactor) ==
    [p EXCEPT !.currentPrice = JsQuot(@, growthFactor)]

\* The copy of position p stored in a snapshot.
SnapshotPosition(p, growthFactor) ==
    [p EXCEPT !.currentPrice = JsQuot(@, growthFactor),
              !.marketValue = JsQuot(@, growthFactor)]

\* The snapshot pushed by the iteration i, rg and rc the values Math.random()
\* returns for the growth factor and for the cash balance.
HistoricalSnapshot(ps, totalValue, clock, i, rg, rc) ==
    LET growthFactor == GrowthFactor(i, rg)
    IN  [date |-> DaysBefore(clock, i),
         totalValue |-> JsQuot(totalValue, growthFactor),
         cashBalance |-> JsAdd(Whole(5000), JsMul(rc, Whole(2000))),
         positions |-> [k \in 1..Len(ps) |-> SnapshotPosition(ps[k], growthFactor)]]

generateMockHistoricalSnapshots(ps, clock, stream) ==
    LET totalValue == TotalOfPositions(ps)
    IN  [j \in 1..(daysBack + 1) |->
           HistoricalSnapshot(ps, totalValue, clock, daysBack - (j - 1),
                              Random(stream, 2 * (j - 1)),
                              Random(stream, 2 * (j - 1) + 1))]

\* currentSnapshot of generateMockPortfolioData.
CurrentSnapshot(ps, clock) ==
    [made |-> TRUE, date |-> clock, totalValue |-> TotalOfPositions(ps),
     cashBalance |-> 7500, positions |-> ps]

(***************************************************************************)
(* The generators on their own (SpecData): positions are given or          *)
(* generated, the snapshot generator is applied to them, any number of     *)
(* times, and the current snapshot is assembled from them.                 *)
(***************************************************************************)
MaxGiven == 2

\* A Position with the derived fields computed as generateMockPositions
\* computes them.
PositionOf(stock, quantity, costBasis, currentPrice) ==
    LET marketValue == JsMul(Whole(currentPrice), Whole(quantity))
        gainLoss == JsSub(marketValue, Whole(costBasis * quantity))
    IN  [symbol |-> stock.symbol, sector |-> stock.sector, assetType |-> stock.type,
         quantity |-> quantity, costBasis |-> Whole(costBasis),
         currentPrice |-> Whole(currentPrice), marketValue |-> marketValue,
         gainLoss |-> gainLoss,
         gainLossPercent |-> JsMul(JsQuot(gainLoss, Whole(costBasis * quantity)),
                                   Whole(100))]

\* A position that is worth nothing and one that has doubled.
GivenPositions ==
    {PositionOf(mockStocks[1], 2, 1, 0), PositionOf(mockStocks[2], 1, 1, 2)}

\* Streams for generateMockPositions, read as (quantity, price) pairs:
\* 10 at the base price, 10 at 5% above it, 18 at 5% below it, 35 at the
\* base price, and a stream that alternates between the first two.
PositionStreams ==
    { <<Whole(0), Finite(1, 2)>>, <<Whole(0), Finite(5, 6)>>,
      <<Finite(1, 6), Finite(1, 6)>>, <<Finite(1, 2)>>,
      <<Whole(0), Finite(1, 2), Whole(0), Finite(5, 6)>> }

\* Streams for generateMockHistoricalSnapshots, read as (growth, cash)
\* pairs: no noise, the least noise, nearly the most, and a stream that
\* goes through the three.
SnapshotStreams ==
    { <<Finite(1, 2)>>, <<Whole(0)>>, <<Finite(99, 100)>>,
      <<Finite(1, 2), Whole(0), Finite(99, 100)>> }

InitData ==
    /\ positions \in SeqsUpTo(GivenPositions, MaxGiven)
    /\ snapshots = <<>>
    /\ now \in {DateAt(11, 2, 0), DateAt(12, 1, 1)}
    /\ metrics = Pending
    /\ currentSnapshot = NoSnapshot
    /\ selectedStocks = <<AAPL, MSFT>>
    /\ sectorAllocations = <<>>
    /\ assetAllocations = <<>>
    /\ done = {}
    /\ currentYear = GetFullYear(now)
    /\ PageIdle

GeneratePositions ==
    /\ positions = <<>> /\ snapshots = <<>>
    /\ \E stream \in PositionStreams :
         positions' = generateMockPositions(stream)
    /\ UNCHANGED <<snapshots, now, metrics, currentSnapshot, selectedStocks>>
    /\ UNCHANGED <<sectorAllocations, assetAllocations, done, pageVars>>

GenerateSnapshots ==
    /\ \E stream \in SnapshotStreams :
         snapshots' = generateMockHistoricalSnapshots(positions, now, stream)
    /\ UNCHANGED <<positions, now, metrics, currentSnapshot, selectedStocks>>
    /\ UNCHANGED <<sectorAllocations, assetAllocations, done, pageVars>>

MakeCurrentSnapshot ==
    /\ snapshots # <<>> /\ currentSnapshot = NoSnapshot
    /\ currentSnapshot' = CurrentSnapshot(positions, now)
    /\ UNCHANGED <<positions, snapshots, now, metrics, selectedStocks>>
    /\ UNCHANGED <<sectorAllocations, assetAllocations, done, pageVars>>

NextData == GeneratePositions \/ GenerateSnapshots \/ MakeCurrentSnapshot

SpecData == InitData /\ [][NextData]_vars

(***************************************************************************)
(* Properties of the allocation functions (SpecAlloc).                     *)
(***************************************************************************)
\* The sum of marketValue over the positions whose index is in I.
RECURSIVE MarketValueOver(_, _)
MarketValueOver(ps, I) ==
    IF I = {} THEN 0
    ELSE LET i == CHOOSE j \in I : TRUE
         IN  ps[i].marketValue + MarketValueOver(ps, I \ {i})

RECURSIVE SumValue(_)
SumValue(allocs) ==
    IF allocs = <<>> THEN 0 ELSE Head(allocs).value + SumValue(Tail(allocs))

\* The sum of the percentages of allocs as a fraction, all of them finite.
RECURSIVE SumPercentage(_)
SumPercentage(allocs) ==
    IF allocs = <<>> THEN Finite(0, 1)
    ELSE LET p == Head(allocs).percentage
             r == SumPercentage(Tail(allocs))
         IN  Finite(p.num * r.den + r.num * p.den, p.den * r.den)

\* The number x is the fraction n / d, d > 0.
IsFraction(x, n, d) == x.kind = "finite" /\ x.num * d = n * x.den

InSector(sector) == {i \in DOMAIN positions : positions[i].sector = sector}
InAssetType(type) == {i \in DOMAIN positions : positions[i].assetType = type}
FirstOf(I) == CHOOSE i \in I : \A j \in I : i <= j
TotalMarketValue == MarketValueOver(positions, DOMAIN positions)

\* C1: for a non-empty list of positions the values of the sector groups, and
\* of the asset type groups, add up to the sum of marketValue over the
\* positions; every position is in exactly one group, and the value of a
\* group is the sum over its positions.
C1_AllocationTotalsConserved ==
    /\ ("sector" \in done /\ positions # <<>>) =>
         /\ SumValue(sectorAllocations) = TotalMarketValue
         /\ \A i \in DOMAIN positions :
              Cardinality({k \in DOMAIN sectorAllocations :
                             sectorAllocations[k].sector = positions[i].sector}) = 1
         /\ \A k \in DOMAIN sectorAllocations :
              /\ sectorAllocations[k].value =
                   MarketValueOver(positions, InSector(sectorAllocations[k].sector))
              /\ sectorAllocations[k].count =
                   Cardinality(InSector(sectorAllocations[k].sector))
    /\ ("asset" \in done /\ positions # <<>>) =>
         /\ SumValue(assetAllocations) = TotalMarketValue
         /\ \A i \in DOMAIN positions :
              Cardinality({k \in DOMAIN assetAllocations :
                             assetAllocations[k].assetType = positions[i].assetType}) = 1
         /\ \A k \in DOMAIN assetAllocations :
              assetAllocations[k].value =
                MarketValueOver(positions, InAssetType(assetAllocations[k].assetType))

\* Both functions have run on three positions, two of them of one sector and
\* both of a value above 0.
C1_Witness ==
    /\ done = {"sector", "asset"}
    /\ Len(positions) = 3
    /\ Len(sectorAllocations) = 2
    /\ Len(assetAllocations) = 2
    /\ \E k \in DOMAIN sectorAllocations :
         /\ sectorAllocations[k].count = 2
         /\ \A i \in InSector(sectorAllocations[k].sector) : positions[i].marketValue > 0

\* C2: when the total market value is above 0 the percentages of the groups
\* add up to 100, and the percentage of a group is the value of the group
\* divided by the total, times 100.
C2_PercentagesSumTo100 ==
    /\ ("sector" \in done /\ TotalMarketValue > 0) =>
         /\ \A k \in DOMAIN sectorAllocations :
              IsFraction(sectorAllocations[k].percentage,
                         100 * MarketValueOver(positions, InSector(sectorAllocations[k].sector)),
                         TotalMarketValue)
         /\ IsFraction(SumPercentage(sectorAllocations), 100, 1)
    /\ ("asset" \in done /\ TotalMarketValue > 0) =>
         /\ \A k \in DOMAIN assetAllocations :
              IsFraction(assetAllocations[k].percentage,
                         100 * MarketValueOver(positions,
                                               InAssetType(assetAllocations[k].assetType)),
                         TotalMarketValue)
         /\ IsFraction(SumPercentage(assetAllocations), 100, 1)

\* Both functions have run on positions of three sectors and two asset types
\* whose values are not all equal.
C2_Witness ==
    /\ done = {"sector", "asset"}
    /\ TotalMarketValue > 0
    /\ Len(sectorAllocations) = 3
    /\ Len(assetAllocations) = 2
    /\ sectorAllocations[1].value > sectorAllocations[3].value

\* C3: when the total market value is 0, every group has percentage 0.
C3_ZeroTotalGivesZeroPercentages ==
    /\ ("sector" \in done /\ TotalMarketValue = 0) =>
         \A k \in DOMAIN sectorAllocations :
           IsFraction(sectorAllocations[k].percentage, 0, 1)
    /\ ("asset" \in done /\ TotalMarketValue = 0) =>
         \A k \in DOMAIN assetAllocations :
           IsFraction(assetAllocations[k].percentage, 0, 1)

\* C4: the groups are in non-increasing order of value, and of two groups of
\* equal value the one whose key comes first in the positions comes first.
C4_SortedByValueTiesInFirstSeenOrder ==
    /\ "sector" \in done =>
         \A a, b \in DOMAIN sectorAllocations :
           a < b =>
             /\ sectorAllocations[a].value >= sectorAllocations[b].value
             /\ sectorAllocations[a].value = sectorAllocations[b].value =>
                  FirstOf(InSector(sectorAllocations[a].sector))
                    < FirstOf(InSector(sectorAllocations[b].sector))
    /\ "asset" \in done =>
         \A a, b \in DOMAIN assetAllocations :
           a < b =>
             /\ assetAllocations[a].value >= assetAllocations[b].value
             /\ assetAllocations[a].value = assetAllocations[b].value =>
                  FirstOf(InAssetType(assetAllocations[a].assetType))
                    < FirstOf(InAssetType(assetAllocations[b].assetType))

\* Three sector groups, the largest not the first seen, the other two of
\* equal value; two asset type groups of equal value.
C4_Witness ==
    /\ done = {"sector", "asset"}
    /\ Len(sectorAllocations) = 3
    /\ sectorAllocations[1].sector # positions[1].sector
    /\ sectorAllocations[1].value > sectorAllocations[2].value
    /\ sectorAllocations[2].value = sectorAllocations[3].value
    /\ Len(assetAllocations) = 2
    /\ assetAllocations[1].value = assetAllocations[2].value

(***************************************************************************)
(* Properties of the transaction filter (Spec).                            *)
(***************************************************************************)
ToUpperChar(c) ==
    IF \E i \in 1..26 : LowerLetters[i] = c
    THEN UpperLetters[CHOOSE i \in 1..26 : LowerLetters[i] = c]
    ELSE c

\* part occurs in str when the case of letters is ignored.
OccursIgnoringCase(part, str) ==
    \E i \in 0..(Len(str) - Len(part)) :
      \A j \in 1..Len(part) : ToUpperChar(str[i + j]) = ToUpperChar(part[j])

\* The texts that differ from query in the case of letters only.
CaseVariants(query) ==
    {v \in [1..Len(query) -> {ToLowerChar(query[i]) : i \in 1..Len(query)}
                             \cup {ToUpperChar(query[i]) : i \in 1..Len(query)}] :
       \A i \in 1..Len(query) : ToUpperChar(v[i]) = ToUpperChar(query[i])}

\* The k-th smallest element of the set I of integers.
Nth(I, k) == CHOOSE i \in I : Cardinality({j \in I : j <= i}) = k

\* The subsequence of the ledger at the indices of I, in ledger order.
LedgerAt(I) == [k \in 1..Cardinality(I) |-> transactions[Nth(I, k)]]

NoFilterSet ==
    /\ filterType = "all"
    /\ filterSymbol = All
    /\ searchQuery = <<>>
    /\ dateFrom = <<>>
    /\ dateTo = <<>>

\* The predicates of the filter, each of them true when it is not supplied.
TypeSupplied(t) == filterType # "all" => t.type = filterType
SymbolSupplied(t) == filterSymbol # All => t.symbol = filterSymbol
TextSupplied(t) ==
    searchQuery # <<>> =>
      \/ OccursIgnoringCase(searchQuery, t.symbol)
      \/ OccursIgnoringCase(searchQuery, t.id)
FromSupplied(t) == dateFrom # <<>> => t.date >= ParseDateInput(dateFrom)
ToSupplied(t) == dateTo # <<>> => t.date <= ParseDateInput(dateTo)

\* C5: with no filter set the filtered transactions are the ledger itself.
C5_NoFilterIsIdentity ==
    (loaded /\ NoFilterSet) => filteredTransactions = transactions

\* A ledger of two transactions of different symbols, shown whole while no
\* filter is set.
C5_Witness ==
    /\ loaded
    /\ NoFilterSet
    /\ Len(transactions) = 2
    /\ transactions[1].symbol # transactions[2].symbol
    /\ filteredTransactions = transactions

\* C6: the filtered transactions are the transactions that satisfy every
\* supplied predicate, in ledger order.
C6_FilterIsConjunctionInOrder ==
    loaded =>
      filteredTransactions =
        LedgerAt({i \in DOMAIN transactions :
                    /\ TypeSupplied(transactions[i])
                    /\ SymbolSupplied(transactions[i])
                    /\ TextSupplied(transactions[i])
                    /\ FromSupplied(transactions[i])
                    /\ ToSupplied(transactions[i])})

\* All five predicates are supplied and keep the second of two transactions.
C6_Witness ==
    /\ loaded
    /\ filterType # "all"
    /\ filterSymbol # All
    /\ searchQuery # <<>>
    /\ dateFrom # <<>>
    /\ dateTo # <<>>
    /\ Len(transactions) = 2
    /\ filteredTransactions = <<transactions[2]>>

\* C7: with no other predicate supplied, the text query keeps a transaction
\* exactly when the query occurs in its symbol or in its id, the case of
\* letters ignored; a query that differs in the case of letters only gives
\* the same filtered transactions.
C7_TextQueryIgnoresCase ==
    loaded =>
      /\ (filterType = "all" /\ filterSymbol = All /\ dateFrom = <<>> /\ dateTo = <<>>) =>
           filteredTransactions =
             LedgerAt({i \in DOMAIN transactions :
                         \/ OccursIgnoringCase(searchQuery, transactions[i].symbol)
                         \/ OccursIgnoringCase(searchQuery, transactions[i].id)})
      /\ \A v \in CaseVariants(searchQuery) :
           Filter(transactions, filterType, filterSymbol, v, dateFrom, dateTo)
             = filteredTransactions

\* The query 'Pm' keeps the transaction of JPM and drops the one of V.
C7_Witness ==
    /\ loaded
    /\ searchQuery = <<"P", "m">>
    /\ filterType = "all" /\ filterSymbol = All /\ dateFrom = <<>> /\ dateTo = <<>>
    /\ Len(transactions) = 2
    /\ Len(filteredTransactions) = 1
    /\ filteredTransactions[1].symbol = JPM

(***************************************************************************)
(* Properties of the ledger reports (SpecLedger).                          *)
(***************************************************************************)
\* The sum of total over the transactions whose index is in I.
RECURSIVE TotalOver(_)
TotalOver(I) ==
    IF I = {} THEN 0
    ELSE LET i == CHOOSE j \in I : TRUE
         IN  transactions[i].total + TotalOver(I \ {i})

WithType(type) == {i \in DOMAIN transactions : transactions[i].type = type}

\* The entries of transactionTypeData under the given name.
TypeDataOf(name) ==
    {k \in DOMAIN transactionTypeData : transactionTypeData[k].name = name}

\* transactionTypeData has no entry of the name when count is 0 and else one
\* entry, with that count and amount.
TypeDataAgrees(name, count, amount) ==
    IF count = 0 THEN TypeDataOf(name) = {}
    ELSE /\ Cardinality(TypeDataOf(name)) = 1
         /\ \A k \in TypeDataOf(name) :
              /\ transactionTypeData[k].value = count
              /\ transactionTypeData[k].amount = amount

\* C8: for each of buy, sell and dividend the totals give the number of the
\* transactions of the type and the sum of their total fields; the three
\* counts add up to the length of the ledger.  The entries of
\* transactionTypeData carry the same counts and amounts, for the types that
\* have a transaction.
C8_TotalsByType ==
    loaded =>
      /\ totals.totalBuys = Cardinality(WithType("buy"))
      /\ totals.totalSells = Cardinality(WithType("sell"))
      /\ totals.totalDividends = Cardinality(WithType("dividend"))
      /\ totals.totalBuyAmount = TotalOver(WithType("buy"))
      /\ totals.totalSellAmount = TotalOver(WithType("sell"))
      /\ totals.totalDividendAmount = TotalOver(WithType("dividend"))
      /\ totals.totalBuys + totals.totalSells + totals.totalDividends = Len(transactions)
      /\ TypeDataAgrees("Buys", totals.totalBuys, totals.totalBuyAmount)
      /\ TypeDataAgrees("Sells", totals.totalSells, totals.totalSellAmount)
      /\ TypeDataAgrees("Dividends", totals.totalDividends, totals.totalDividendAmount)

\* One buy, one sell and one dividend, of totals that are not all equal.
C8_Witness ==
    /\ loaded
    /\ Len(transactions) = 3
    /\ totals.totalBuys = 1 /\ totals.totalBuyAmount = 2
    /\ totals.totalSells = 1 /\ totals.totalSellAmount = 1
    /\ totals.totalDividends = 1 /\ totals.totalDividendAmount = 2
    /\ Len(transactionTypeData) = 3

\* The months that hold a transaction, and the latest MonthWindow of them.
LedgerMonths == {MonthIndex(transactions[i].date) : i \in DOMAIN transactions}
RecentMonths ==
    {m \in LedgerMonths : Cardinality({x \in LedgerMonths : x > m}) < MonthWindow}

\* The label of month m.
LabelOfMonth(m) == MonthLabel(DateAt(m, 1, 0))

\* C9: the monthly volume report has one entry for each month that holds a
\* transaction, of the latest 12 such months when there are more, and the
\* entries are in increasing order of month.
C9_MonthlyVolumeChronological ==
    loaded =>
      /\ Len(monthlyChartData) = Cardinality(RecentMonths)
      /\ \A k \in DOMAIN monthlyChartData :
           monthlyChartData[k].month = LabelOfMonth(Nth(RecentMonths, k))

\* Thirteen months in a ledger that is not in increasing order of date: the
\* report keeps twelve.
C9_Witness ==
    /\ loaded
    /\ Cardinality(LedgerMonths) > MonthWindow
    /\ Len(monthlyChartData) = MonthWindow
    /\ \E i \in DOMAIN transactions :
         i > 1 /\ transactions[i].date < transactions[i - 1].date

LedgerSymbols == {transactions[i].symbol : i \in DOMAIN transactions}

\* C10: the top traded ranking has at most 5 entries and at most as many as
\* the ledger has symbols, no symbol twice, in non-increasing order of volume.
C10_TopTradedBounded ==
    loaded =>
      /\ Len(topTradedStocks) <= TopN
      /\ Len(topTradedStocks) <= Cardinality(LedgerSymbols)
      /\ \A a, b \in DOMAIN topTradedStocks :
           a < b =>
             /\ topTradedStocks[a].symbol # topTradedStocks[b].symbol
             /\ topTradedStocks[a].total >= topTradedStocks[b].total

\* More than five symbols of different volumes, the first in the ledger not
\* the most traded: the ranking keeps five.
C10_Witness ==
    /\ loaded
    /\ Cardinality(LedgerSymbols) > TopN
    /\ Len(topTradedStocks) = TopN
    /\ topTradedStocks[1].total > topTradedStocks[TopN].total
    /\ topTradedStocks[1].symbol # transactions[1].symbol

\* The volume of a symbol and the place of its first transaction in the ledger.
VolumeOf(sym) == TotalOver({i \in DOMAIN transactions : transactions[i].symbol = sym})
FirstIndexOf(sym) == FirstOf({i \in DOMAIN transactions : transactions[i].symbol = sym})

\* The code of an upper case letter, and the order of '<' on two symbols.
CharCode(c) == CHOOSE k \in DOMAIN UpperLetters : UpperLetters[k] = c
LexLess(a, b) ==
    \E k \in 1..(Len(a) + 1) :
      /\ k <= Len(b)
      /\ \A j \in 1..(k - 1) : a[j] = b[j]
      /\ (k = Len(a) + 1 \/ CharCode(a[k]) < CharCode(b[k]))

\* s ranks before t when it has the larger volume or, of the same volume,
\* comes first in the ledger.
RanksBeforeFirstSeen(s, t) ==
    \/ VolumeOf(s) > VolumeOf(t)
    \/ VolumeOf(s) = VolumeOf(t) /\ FirstIndexOf(s) < FirstIndexOf(t)

\* s ranks before t when it has the larger volume or, of the same volume,
\* the smaller symbol.
RanksBeforeLexical(s, t) ==
    \/ VolumeOf(s) > VolumeOf(t)
    \/ VolumeOf(s) = VolumeOf(t) /\ LexLess(s, t)

\* C11 as the specification states it: symbols of the same volume stand in
\* the top traded ranking in ascending order of symbol, and that order also
\* decides which of them stay in the five, whatever the order of the ledger.
C11_TiesInLexicalOrder ==
    loaded =>
      \A k \in DOMAIN topTradedStocks :
        Cardinality({s \in LedgerSymbols :
                       RanksBeforeLexical(s, topTradedStocks[k].symbol)}) = k - 1

\* C11, amended: symbols of the same volume stand in the top traded ranking
\* in the order of their first transaction in the ledger, and that order also
\* decides which of them stay in the five.
C11_TiesInFirstSeenOrder ==
    loaded =>
      \A k \in DOMAIN topTradedStocks :
        Cardinality({s \in LedgerSymbols :
                       RanksBeforeFirstSeen(s, topTradedStocks[k].symbol)}) = k - 1

\* More than five symbols, the fifth of the ranking of the volume of a symbol
\* that is left out although its symbol is the smaller, and two symbols of
\* the same volume in the ranking in descending order of symbol.
C11_Witness ==
    /\ loaded
    /\ Cardinality(LedgerSymbols) > TopN
    /\ Len(topTradedStocks) = TopN
    /\ \E s \in LedgerSymbols :
         /\ \A k \in DOMAIN topTradedStocks : topTradedStocks[k].symbol # s
         /\ VolumeOf(s) = topTradedStocks[TopN].total
         /\ LexLess(s, topTradedStocks[TopN].symbol)
    /\ \E k \in 1..(TopN - 1) :
         /\ topTradedStocks[k].total = topTradedStocks[k + 1].total
         /\ LexLess(topTradedStocks[k + 1].symbol, topTradedStocks[k].symbol)

\* C12: the volume the ranking shows for a symbol is the sum of total over
\* every transaction of that symbol in the ledger, the sells and the
\* dividends added like the buys; a ledger of at most five symbols has every
\* symbol in the ranking.
C12_VolumeSumsEveryTransaction ==
    loaded =>
      /\ \A k \in DOMAIN topTradedStocks :
           /\ topTradedStocks[k].symbol \in LedgerSymbols
           /\ topTradedStocks[k].total = VolumeOf(topTradedStocks[k].symbol)
      /\ Cardinality(LedgerSymbols) <= TopN =>
           LedgerSymbols = {topTradedStocks[k].symbol : k \in DOMAIN topTradedStocks}

\* A symbol with a buy of 2, a sell of 1 and a dividend of 2: its volume is 5.
C12_Witness ==
    /\ loaded
    /\ Len(transactions) = 3
    /\ \A i \in DOMAIN transactions : transactions[i].symbol = JPM
    /\ {<<transactions[i].type, transactions[i].total>> : i \in DOMAIN transactions}
         = {<<"buy", 2>>, <<"sell", 1>>, <<"dividend", 2>>}
    /\ topTradedStocks = <<[symbol |-> JPM, total |-> 5]>>

\* The transactions of the calendar year the page shows, by type.
InYear(type) ==
    {i \in DOMAIN transactions :
       /\ transactions[i].type = type
       /\ GetFullYear(transactions[i].date) = currentYear}

\* C13: the tax card of year Y counts the sells dated in calendar year Y,
\* and shows the sum of their totals as sell proceeds, the sum of the totals
\* of the dividends dated in Y as dividend income, and 20% of those sell
\* proceeds as estimated realized gain; no transaction of another year
\* enters any of the four.
C13_YearTaxSummary ==
    loaded =>
      /\ taxSummary.sells = Cardinality(InYear("sell"))
      /\ taxSummary.sellProceeds = TotalOver(InYear("sell"))
      /\ taxSummary.dividendIncome = TotalOver(InYear("dividend"))
      /\ IsFraction(taxSummary.realizedGains, 20 * TotalOver(InYear("sell")), 100)

\* A sell and a dividend of the year shown and a sell of the other year.
C13_Witness ==
    /\ loaded
    /\ Len(transactions) = 3
    /\ InYear("sell") # {} /\ InYear("dividend") # {}
    /\ \E i \in DOMAIN transactions :
         /\ transactions[i].type = "sell"
         /\ GetFullYear(transactions[i].date) # currentYear
    /\ taxSummary.sells = 1
    /\ taxSummary.sellProceeds = 2

(***************************************************************************)
(* Properties of calculateMockMetrics (SpecMetrics).                       *)
(***************************************************************************)
Returned == metrics.outcome = "returned"
ValueAt(i) == snapshots[i].totalValue
NonDecreasing == \A i \in 1..(Len(snapshots) - 1) : ValueAt(i) <= ValueAt(i + 1)
Chronological ==
    \A i \in 1..(Len(snapshots) - 1) : snapshots[i].date < snapshots[i + 1].date

\* The number x is finite and a <= x <= b.
IsBetween(x, a, b) ==
    x.kind = "finite" /\ a * x.den <= x.num /\ x.num <= b * x.den

\* The largest value among the first i snapshots.
PeakAt(i) ==
    CHOOSE v \in {ValueAt(j) : j \in 1..i} : \A j \in 1..i : ValueAt(j) <= v

\* C14: for a series that is not empty and has no negative value, zeros
\* allowed, the max drawdown is a number from 0 to 100, and it is 0 when no
\* value of the series is below the one before it.
C14_MaxDrawdownWithinBounds ==
    (Returned /\ \A i \in DOMAIN snapshots : ValueAt(i) >= 0) =>
      /\ IsBetween(metrics.value.maxDrawdown, 0, 100)
      /\ NonDecreasing => IsFraction(metrics.value.maxDrawdown, 0, 1)

\* A series that starts at the value 0, rises and falls back to 0: the
\* drawdown is 100.
C14_Witness ==
    /\ Returned
    /\ Len(snapshots) = 3
    /\ ValueAt(1) = 0 /\ ValueAt(2) > 0 /\ ValueAt(3) = 0
    /\ IsFraction(metrics.value.maxDrawdown, 100, 1)

\* C15: the max drawdown is the largest of (peak_i - v_i) / peak_i * 100
\* over the places i of the series whose running peak peak_i is positive, 0
\* when there is none; the values 100, 120, 90, 130 give 25.
C15_MaxDrawdownIsLargestFallFromPeak ==
    (Returned /\ \A i \in DOMAIN snapshots : ValueAt(i) >= 0) =>
      LET md == metrics.value.maxDrawdown
          falls == {i \in DOMAIN snapshots : PeakAt(i) > 0}
      IN  /\ md.kind = "finite"
          /\ \A i \in falls : md.num * PeakAt(i) >= 100 * (PeakAt(i) - ValueAt(i)) * md.den
          /\ \/ IsFraction(md, 0, 1)
             \/ \E i \in falls : IsFraction(md, 100 * (PeakAt(i) - ValueAt(i)), PeakAt(i))
          /\ snapshots = ExampleSeries => IsFraction(md, 25, 1)

\* The series of the values 100, 120, 90, 130 and its max drawdown of 25.
C15_Witness ==
    /\ Returned
    /\ [i \in DOMAIN snapshots |-> ValueAt(i)] = <<100, 120, 90, 130>>
    /\ metrics.value.maxDrawdown.kind = "finite"
    /\ metrics.value.maxDrawdown.num = 25 * metrics.value.maxDrawdown.den

\* C16 as the specification states it: the computation fails with
\* InvalidInput, and returns no metrics, when the series is empty or not in
\* chronological order, and fails with no other error.
C16_InvalidInputOnBadSeries ==
    metrics # Pending =>
      /\ metrics.outcome \in {"returned", "InvalidInput"}
      /\ (snapshots = <<>> \/ ~Chronological) => metrics.outcome = "InvalidInput"

\* The percentages and ratios of the returned metrics.
Ratios ==
    {metrics.value.totalReturnPercent.kind, metrics.value.dailyReturnPercent.kind,
     metrics.value.monthlyReturnPercent.kind, metrics.value.ytdReturnPercent.kind,
     metrics.value.volatility.kind, metrics.value.sharpeRatio.kind,
     metrics.value.maxDrawdown.kind}

\* C17 as the specification states it: on a series that is not empty and is
\* in chronological order the computation returns, and no percentage or ratio
\* it returns is NaN or an infinity.
C17_RatiosAlwaysDefined ==
    (metrics # Pending /\ snapshots # <<>> /\ Chronological) =>
      /\ Returned
      /\ Ratios = {"finite"}

\* The number of snapshots, and the snapshots that are dated in the year of
\* the clock or later.
Count == Len(snapshots)
OfThisYear == {i \in DOMAIN snapshots : GetFullYear(snapshots[i].date) >= GetFullYear(now)}

C19_MonthlyReturnOf30Back ==
    Returned =>
      metrics.value.monthlyReturn =
        TotalMarketValue - (IF Count > MonthBack THEN ValueAt(Count - MonthBack)
                            ELSE ValueAt(1))

ReturnAt(i) == Lowest(ValueAt(i + 1) - ValueAt(i), ValueAt(i))
RECURSIVE ReturnsBetween(_, _)
ReturnsBetween(lo, hi) ==
    IF lo > hi THEN Whole(0)
    ELSE IF lo = hi THEN ReturnAt(lo)
    ELSE JsAdd(ReturnsBetween(lo, (lo + hi) \div 2),
               ReturnsBetween((lo + hi) \div 2 + 1, hi))
ReturnsTotal(n) == ReturnsBetween(1, n)
MeanReturn == JsQuot(ReturnsTotal(Count - 1), Whole(Count - 1))

\* The sum over the first n returns of the squared distance from the mean.
RECURSIVE SquaresBetween(_, _)
SquaresBetween(lo, hi) ==
    IF lo > hi THEN Whole(0)
    ELSE IF lo = hi
         THEN JsMul(JsSub(ReturnAt(lo), MeanReturn), JsSub(ReturnAt(lo), MeanReturn))
    ELSE JsAdd(SquaresBetween(lo, (lo + hi) \div 2),
               SquaresBetween((lo + hi) \div 2 + 1, hi))
SquaresTotal(n) == SquaresBetween(1, n)

\* (volatility / 100) ^ 2
VolatilitySquared ==
    LET v == metrics.value.volatility
    IN  JsMul(JsMul(JsQuot(v.scale, Whole(100)), JsQuot(v.scale, Whole(100))), v.radicand)

\* The series has a return and no return divides by 0.
HasReturns == Count >= 2 /\ \A i \in 1..(Count - 1) : ValueAt(i) # 0

\* C21 as the specification states it: (volatility / 100) ^ 2 is 252 times
\* the sample variance of the returns, the sum of the squared distances from
\* the mean divided by the number of returns less one.
C21_VolatilityOfSampleVariance ==
    (Returned /\ HasReturns /\ Count >= 3) =>
      /\ metrics.value.volatility.kind = "finite"
      /\ JsMul(VolatilitySquared, Whole(Count - 2))
           = JsMul(Whole(252), SquaresTotal(Count - 1))

\* C21, amended: (volatility / 100) ^ 2 is 252 times the population variance
\* of the returns, the sum of the squared distances from the mean divided by
\* the number of returns.
C21_VolatilityOfPopulationVariance ==
    (Returned /\ HasReturns) =>
      /\ metrics.value.volatility.kind = "finite"
      /\ JsMul(VolatilitySquared, Whole(Count - 1))
           = JsMul(Whole(252), SquaresTotal(Count - 1))

\* The values 1, 2, 1: the returns are 1 and -1/2, their mean 1/4, the sum
\* of squares 9/8, and (volatility / 100) ^ 2 is 252 * 9/16.
C21_Witness ==
    /\ Returned
    /\ [i \in DOMAIN snapshots |-> ValueAt(i)] = <<1, 2, 1>>
    /\ VolatilitySquared = Lowest(252 * 9, 16)


(***************************************************************************)
(* The date bounds of the filter (Spec).                                   *)
(***************************************************************************)
\* The transaction is among the filtered ones.
Shown(transaction) ==
    \E k \in 1..Len(filteredTransactions) : filteredTransactions[k] = transaction

\* C29: the date bounds are inclusive by day: a transaction of the day of
\* date-to that passes the other four predicates is shown, whatever its
\* time of day; so with date-from and date-to on the same day every
\* transaction of that day that passes the other predicates is shown.
C29_DateToIncludesItsDay ==
    (loaded /\ dateTo # <<>>) =>
      \A i \in 1..Len(transactions) :
        ( /\ DayIndex(transactions[i].date) = DayIndex(ParseDateInput(dateTo))
          /\ Matches(transactions[i], filterType, filterSymbol, searchQuery,
                     dateFrom, <<>>) )
        => Shown(transactions[i])

(***************************************************************************)
(* Properties of the generators (SpecData).                                *)
(***************************************************************************)
Generated == snapshots # <<>>

\* C22: the snapshot generator returns daysBack + 1 snapshots (366), the
\* j-th of them on the day that is daysBack - (j - 1) days before today,
\* so one for each day from daysBack days ago through today, oldest first,
\* with strictly increasing timestamps and no two on the same day.
C22_OneSnapshotPerDay ==
    Generated =>
      /\ Len(snapshots) = daysBack + 1
      /\ Len(snapshots) = 366
      /\ \A j \in 1..Len(snapshots) :
           DayIndex(snapshots[j].date) = DayIndex(now) - daysBack + (j - 1)
      /\ \A j \in 1..(Len(snapshots) - 1) :
           /\ snapshots[j].date < snapshots[j + 1].date
           /\ DayIndex(snapshots[j].date) # DayIndex(snapshots[j + 1].date)

\* Snapshots were generated from the ten generated positions late on a day:
\* the first is of 365 days before and the last of today.
C22_Witness ==
    /\ Generated
    /\ Len(positions) = 10
    /\ now = DateAt(12, 1, 1)
    /\ snapshots[1].date = now - 365 * TicksPerDay
    /\ snapshots[Len(snapshots)].date = now

\* The values Math.random() returns in the streams of the snapshot generator.
NoiseValues == UNION {{stream[k] : k \in 1..Len(stream)} : stream \in SnapshotStreams}

\* The positions the snapshots were generated from are worth nothing in total.
WorthNothing == TotalOfPositions(positions) = Whole(0)

\* C23: when the market values of the positions sum to zero (the empty list
\* included), every generated snapshot has the total value zero, whatever
\* Math.random() returned; the growth factor the values are divided by is
\* positive in every iteration, so never zero.
C23_ZeroTotalGivesZeroSnapshots ==
    Generated =>
      /\ WorthNothing =>
           \A j \in 1..Len(snapshots) : snapshots[j].totalValue = Whole(0)
      /\ \A i \in 0..daysBack : \A r \in NoiseValues :
           /\ GrowthFactor(i, r).kind = "finite"
           /\ GrowthFactor(i, r).num > 0

\* Snapshots were generated, with the least noise, from two positions that
\* are worth nothing.
C23_Witness ==
    /\ Generated
    /\ Len(positions) = 2
    /\ WorthNothing
    /\ snapshots[1].cashBalance = Whole(5000)
    /\ snapshots[1].totalValue = Whole(0)
    /\ snapshots[1].positions[2].marketValue = Whole(0)

\* The derived fields of position p agree with its quantity, cost and price.
Consistent(p) ==
    LET cost == JsMul(Whole(p.quantity), p.costBasis)
    IN  /\ p.marketValue = JsMul(Whole(p.quantity), p.currentPrice)
        /\ p.gainLoss = JsSub(p.marketValue, cost)
        /\ p.gainLossPercent = JsMul(JsQuot(p.gainLoss, cost), Whole(100))

CurrentPositionsConsistent ==
    \A k \in 1..Len(positions) : Consistent(positions[k])

\* C24: every Position produced, the current positions and the positions
\* stored in every generated snapshot, has marketValue = quantity *
\* currentPrice, gainLoss = marketValue - quantity * costBasis and
\* gainLossPercent = gainLoss / (quantity * costBasis) * 100.
C24_PositionsConsistent ==
    /\ CurrentPositionsConsistent
    /\ \A j \in 1..Len(snapshots) : \A k \in 1..Len(snapshots[j].positions) :
         Consistent(snapshots[j].positions[k])

\* C26: the computation components are deterministic in their arguments;
\* for the snapshot generator, whose one argument is the list of positions,
\* a second run on the same positions returns the snapshots of the first.
C26_SameArgumentsSameSnapshots ==
    [][(Generated /\ positions' = positions /\ snapshots' # <<>>)
         => snapshots' = snapshots]_vars

\* a / b < c / d for natural a, c and positive b, d, by the whole parts and
\* then the reciprocals of the fractional parts, so without a product.
RECURSIVE RatioLess(_, _, _, _)
RatioLess(a, b, c, d) ==
    IF a \div b # c \div d THEN a \div b < c \div d
    ELSE IF c % d = 0 THEN FALSE
    ELSE IF a % b = 0 THEN TRUE
    ELSE RatioLess(d, c % d, b, a % b)

\* x < y for finite x and y that are not negative.
Below(x, y) == RatioLess(x.num, x.den, y.num, y.den)

\* The snapshots are those of a run in which Math.random() returned 0.5
\* throughout, which makes the noise term of the growth factor 0.
NoNoise == snapshots = generateMockHistoricalSnapshots(positions, now, <<Finite(1, 2)>>)

\* C27: the series simulates growth: when the noise term is zero, the
\* snapshot values do not decrease from the oldest snapshot to the newest,
\* and the newest snapshot, today's, has today's total market value of the
\* positions.
C27_GrowthWithoutNoise ==
    (Generated /\ NoNoise) =>
      /\ \A j \in 1..(Len(snapshots) - 1) :
           ~Below(snapshots[j + 1].totalValue, snapshots[j].totalValue)
      /\ snapshots[Len(snapshots)].totalValue = TotalOfPositions(positions)

\* C28: in every generated snapshot, and in the current snapshot, totalValue
\* is the sum of marketValue over the positions stored in that snapshot.
C28_TotalValueIsSumOfPositions ==
    /\ \A j \in 1..Len(snapshots) :
         snapshots[j].totalValue = TotalOfPositions(snapshots[j].positions)
    /\ currentSnapshot.made =>
         currentSnapshot.totalValue = TotalOfPositions(currentSnapshot.positions)

\* Ten positions of quantity 10 at their base prices, worth 32500 together,
\* are in the current snapshot and, at lower prices, in today's snapshot of
\* the generated series.
C28_Witness ==
    /\ Generated
    /\ currentSnapshot.made
    /\ Len(currentSnapshot.positions) = 10
    /\ currentSnapshot.totalValue = Whole(32500)
    /\ Len(snapshots[Len(snapshots)].positions) = 10
    /\ Below(snapshots[Len(snapshots)].totalValue, Whole(32500))

(***************************************************************************)
(* Properties of the page and the allocation functions on empty inputs     *)
(* (SpecEmpty).                                                            *)
(***************************************************************************)
\* C25: with an empty ledger the filter, under every filter state, the
\* totals by type, the monthly volume, the top-traded ranking and the year
\* tax summary are computed and are empty sequences and zero counts and
\* amounts; with an empty list of positions each allocation function
\* returns the empty sequence.
C25_EmptyInputsGiveEmptyReports ==
    /\ (loaded /\ transactions = <<>>) =>
         /\ filteredTransactions = <<>>
         /\ totals = [totalBuys |-> 0, totalSells |-> 0, totalDividends |-> 0,
                      totalBuyAmount |-> 0, totalSellAmount |-> 0,
                      totalDividendAmount |-> 0]
         /\ transactionTypeData = <<>>
         /\ monthlyChartData = <<>>
         /\ topTradedStocks = <<>>
         /\ taxSummary = [sells |-> 0, sellProceeds |-> 0,
                          realizedGains |-> Whole(0), dividendIncome |-> 0]
    /\ ("sector" \in done /\ positions = <<>>) => sectorAllocations = <<>>
    /\ ("asset" \in done /\ positions = <<>>) => assetAllocations = <<>>

\* The empty ledger is loaded, every filter is set, and both allocation
\* functions have been applied to the empty list.
C25_Witness ==
    /\ loaded /\ transactions = <<>> /\ positions = <<>>
    /\ done = {"sector", "asset"}
    /\ filterType = "sell" /\ searchQuery = <<"j">>
    /\ dateFrom # <<>> /\ dateTo # <<>>
    /\ filteredTransactions = <<>>

(***************************************************************************)
(* Properties of the research page (SpecResearch).                         *)
(***************************************************************************)
\* The symbols selected before and after a step.
Selected == {selectedStocks[k] : k \in 1..Len(selectedStocks)}
SelectedAfter == {selectedStocks'[k] : k \in 1..Len(selectedStocks')}

\* C30: from the selection of AAPL and MSFT on, every toggle leaves at
\* most 4 symbols selected, none of them twice; a toggle of a selected
\* symbol removes it, and a toggle of a symbol that is not selected adds it
\* when fewer than 4 are selected and changes nothing otherwise.
C30_SelectionToggles ==
    /\ selectedStocks = <<AAPL, MSFT>>
    /\ [][ /\ Len(selectedStocks') <= 4
           /\ Cardinality(SelectedAfter) = Len(selectedStocks')
           /\ \E k \in 1..Len(mockStockData) :
                IF mockStockData[k] \in Selected
                THEN SelectedAfter = Selected \ {mockStockData[k]}
                ELSE /\ Cardinality(Selected) < 4
                     /\ SelectedAfter = Selected \cup {mockStockData[k]} ]_vars

\* AAPL was removed and selected again, and with it four stocks are
\* selected: the checkbox of every other stock is disabled.
C30_Witness == selectedStocks = <<MSFT, TSLA, WMT, AAPL>>
====
